---- MODULE Spec2Model ----
(***************************************************************************)
(* A model of promptSuite: the template engine of core/models.py           *)
(* (PromptModel, Prompt), the structured-file backend of                   *)
(* handlers/yaml_handler.py and the callback adapter of                    *)
(* handlers/plugins_handler.py.                                            *)
(*                                                                         *)
(* Python strings are sequences of one-character strings, so that strip,   *)
(* the regular expression \{(\w+)\} and str.format are computed as the     *)
(* code computes them.  Python's None is the value None below.             *)
(***************************************************************************)
EXTENDS Integers, Sequences, FiniteSets, TLC

VARIABLES
    prompts,    \* YamlHandler.data["prompts"]: key -> serialized Prompt
    history,    \* YamlHandler.data["history"]: name -> sequence of entries
    disk,       \* the document last written by _save_data (NoFile before)
    now,        \* the instants that the first, second, ... datetime.now() of
                \* the next call read
    appended,   \* the number of history entries appended so far
    last,       \* the call that has just ended and how it ended (NoCall if none)
    prev,       \* the last call that changed the document (NoCall if none)
    asked,      \* the last get_history call and the mapping it returned, while
                \* no later call has changed the document (NoCall otherwise)
    profile,    \* the family of calls the client of this run issues
    tcase,      \* the template case under test (SpecTemplate)
    conn        \* the connection of the callback adapter (SpecPlugin)

vars == <<prompts, history, disk, now, appended, last, prev, asked, profile, tcase,
          conn>>

\* the variables of the backends, which a template case leaves alone
backend == <<prompts, history, disk, now, appended, last, prev, asked, profile, conn>>

(***************************************************************************)
(* Bounds of the model.                                                    *)
(***************************************************************************)
MaxPieces == 3      \* a template content is made of at most MaxPieces pieces
MaxTime == 1        \* the clock runs from 0 to MaxTime
MaxReads == 5       \* a call reads the clock at most MaxReads times
YamlReads == 3      \* a call of the file backend reads it at most YamlReads times
MaxHist == 3        \* at most MaxHist history entries are appended in a run

(***************************************************************************)
(* Characters and strings.                                                 *)
(***************************************************************************)
None == <<"None">>

WordChars == {"a", "b", "p", "q", "m", "n", "0", "_"}
Digits == {"0"}
IsWord(c) == c \in WordChars
IsSpace(c) == c = " "

S(c) == <<c>>

RECURSIVE LStrip(_)
LStrip(s) == IF s # <<>> /\ IsSpace(Head(s)) THEN LStrip(Tail(s)) ELSE s

RECURSIVE RStrip(_)
RStrip(s) ==
    IF s # <<>> /\ IsSpace(s[Len(s)]) THEN RStrip(SubSeq(s, 1, Len(s) - 1)) ELSE s

\* str.strip()
Strip(s) == RStrip(LStrip(s))

Range(f) == {f[i] : i \in DOMAIN f}

\* len(xs) != len(set(xs))
HasDuplicates(xs) == Len(xs) # Cardinality(Range(xs))

(***************************************************************************)
(* re.findall(r'\{(\w+)\}', content)                                       *)
(***************************************************************************)
\* the length of the run of word characters that starts at position i
RECURSIVE WordRun(_, _)
WordRun(s, i) == IF i <= Len(s) /\ IsWord(s[i]) THEN 1 + WordRun(s, i + 1) ELSE 0

\* the length of the name matched by \{(\w+)\} at position i, 0 if no match
MatchAt(s, i) ==
    IF i <= Len(s) /\ s[i] = "{"
    THEN LET n == WordRun(s, i + 1)
         IN  IF n > 0 /\ i + n + 1 <= Len(s) /\ s[i + n + 1] = "}" THEN n ELSE 0
    ELSE 0

\* the matches from position i on, left to right, not overlapping
RECURSIVE FindAll(_, _)
FindAll(s, i) ==
    IF i > Len(s) THEN <<>>
    ELSE LET n == MatchAt(s, i)
         IN  IF n > 0
             THEN <<SubSeq(s, i + 1, i + n)>> \o FindAll(s, i + n + 2)
             ELSE FindAll(s, i + 1)

template_vars(content) == Range(FindAll(content, 1))

(***************************************************************************)
(* Outcomes: err is "none" or the class of the exception raised.           *)
(***************************************************************************)
Ok == [err |-> "none", names |-> {}]

\* two checks in sequence: the first that raises decides
OrElse(r, s) == IF r.err # "none" THEN r ELSE s
Raise(kind) == [err |-> kind, names |-> {}]
RaiseNames(kind, names) == [err |-> kind, names |-> names]

\* the classes ValidationError covers (core/exceptions.py)
TemplateErrors == {"TemplateValidationError", "MissingParameterError",
                   "ExtraParameterError", "ParameterError"}
ValidationErrors == {"ValidationError"} \cup TemplateErrors

(***************************************************************************)
(* PromptModel                                                             *)
(***************************************************************************)
validate_content(content) ==
    IF Strip(content) = <<>> THEN Raise("ValidationError") ELSE Ok

validate_parameters(parameters) ==
    IF \E i \in DOMAIN parameters : Strip(parameters[i]) = <<>>
    THEN Raise("ValidationError")
    ELSE IF HasDuplicates(parameters) THEN Raise("ValidationError")
    ELSE Ok

\* PromptModel.__post_init__
PromptModelInit(content, parameters) ==
    OrElse(validate_content(content), validate_parameters(parameters))

\* validate_template with the two checks exchanged
validate_template_extra_first(content, parameters) ==
    LET declared_params == Range(parameters)
        missing_params == template_vars(content) \ declared_params
        extra_params == declared_params \ template_vars(content)
    IN  IF extra_params # {} THEN RaiseNames("ExtraParameterError", extra_params)
        ELSE IF missing_params # {} THEN RaiseNames("MissingParameterError", missing_params)
        ELSE Ok

\* validate_template without the check of the missing parameters
validate_template_only_extra(content, parameters) ==
    LET declared_params == Range(parameters)
        extra_params == declared_params \ template_vars(content)
    IN  IF extra_params # {} THEN RaiseNames("ExtraParameterError", extra_params)
        ELSE Ok

validate_template(content, parameters) ==
    LET declared_params == Range(parameters)
        missing_params == template_vars(content) \ declared_params
        extra_params == declared_params \ template_vars(content)
    IN  IF missing_params # {} THEN RaiseNames("MissingParameterError", missing_params)
        ELSE IF extra_params # {} THEN RaiseNames("ExtraParameterError", extra_params)
        ELSE Ok

(***************************************************************************)
(* str.format with keyword arguments only: literal text, the escapes {{    *)
(* and }}, and replacement fields {field} looked up by keyword.  An error  *)
(* is raised at the first offending position from the left.  The           *)
(* characters ! : . [ of a replacement field are not in the alphabet.      *)
(***************************************************************************)
\* the position of the } that closes the field starting at i; 0 when the
\* string ends first or a { is met in the field name
RECURSIVE FieldEnd(_, _)
FieldEnd(s, i) ==
    IF i > Len(s) THEN 0
    ELSE IF s[i] = "}" THEN i
    ELSE IF s[i] = "{" THEN 0
    ELSE FieldEnd(s, i + 1)

AllDigits(s) == s # <<>> /\ \A i \in DOMAIN s : s[i] \in Digits

FmtOk(out) == [err |-> "none", out |-> out, names |-> {}]
FmtErr(kind) == [err |-> kind, out |-> <<>>, names |-> {}]
FmtErrNames(kind, names) == [err |-> kind, out |-> <<>>, names |-> names]
FmtCons(pre, r) == IF r.err = "none" THEN FmtOk(pre \o r.out) ELSE r

\* Format with every substituted value scanned once more for fields
RECURSIVE Format_rescan(_, _, _)
Format_rescan(s, i, kw) ==
    IF i > Len(s) THEN FmtOk(<<>>)
    ELSE IF s[i] = "}"
    THEN IF i < Len(s) /\ s[i + 1] = "}"
         THEN FmtCons(<<"}">>, Format_rescan(s, i + 2, kw))
         ELSE FmtErr("ValueError")
    ELSE IF s[i] = "{"
    THEN IF i = Len(s) THEN FmtErr("ValueError")
         ELSE IF s[i + 1] = "{" THEN FmtCons(<<"{">>, Format_rescan(s, i + 2, kw))
         ELSE LET j == FieldEnd(s, i + 1)
                  field == SubSeq(s, i + 1, j - 1)
              IN  IF j = 0 THEN FmtErr("ValueError")
                  ELSE IF field = <<>> \/ AllDigits(field) THEN FmtErr("IndexError")
                  ELSE IF field \in DOMAIN kw
                  THEN LET v == Format_rescan(kw[field], 1,
                                              [k \in DOMAIN kw |-> <<"q">>])
                       IN  IF v.err = "none"
                           THEN FmtCons(v.out, Format_rescan(s, j + 1, kw))
                           ELSE v
                  ELSE FmtErr("KeyError")
    ELSE FmtCons(<<s[i]>>, Format_rescan(s, i + 1, kw))

RECURSIVE Format(_, _, _)
Format(s, i, kw) ==
    IF i > Len(s) THEN FmtOk(<<>>)
    ELSE IF s[i] = "}"
    THEN IF i < Len(s) /\ s[i + 1] = "}"
         THEN FmtCons(<<"}">>, Format(s, i + 2, kw))
         ELSE FmtErr("ValueError")
    ELSE IF s[i] = "{"
    THEN IF i = Len(s) THEN FmtErr("ValueError")
         ELSE IF s[i + 1] = "{" THEN FmtCons(<<"{">>, Format(s, i + 2, kw))
         ELSE LET j == FieldEnd(s, i + 1)
                  field == SubSeq(s, i + 1, j - 1)
              IN  IF j = 0 THEN FmtErr("ValueError")
                  ELSE IF field = <<>> \/ AllDigits(field) THEN FmtErr("IndexError")
                  ELSE IF field \in DOMAIN kw
                  THEN FmtCons(kw[field], Format(s, j + 1, kw))
                  ELSE FmtErr("KeyError")
    ELSE FmtCons(<<s[i]>>, Format(s, i + 1, kw))

\* the try/except around content.format
FormatContent(content, params) ==
    LET r == Format(content, 1, params)
    IN  IF r.err = "none" THEN r
        ELSE IF r.err = "KeyError" THEN FmtErr("MissingParameterError")
        ELSE FmtErr("TemplateValidationError")

\* build with the two parameter checks exchanged
build_extra_first(content, parameters, params) ==
    LET missing_params == Range(parameters) \ DOMAIN params
        extra_params == DOMAIN params \ Range(parameters)
    IN  IF extra_params # {} THEN FmtErrNames("ExtraParameterError", extra_params)
        ELSE IF missing_params # {} THEN FmtErrNames("MissingParameterError", missing_params)
        ELSE FormatContent(content, params)

\* PromptModel.build(params): params is a function from names to values
build(content, parameters, params) ==
    LET missing_params == Range(parameters) \ DOMAIN params
        extra_params == DOMAIN params \ Range(parameters)
    IN  IF missing_params # {} THEN FmtErrNames("MissingParameterError", missing_params)
        ELSE IF extra_params # {} THEN FmtErrNames("ExtraParameterError", extra_params)
        ELSE FormatContent(content, params)

(***************************************************************************)
(* Timestamps: datetime.isoformat() and datetime.fromisoformat().          *)
(***************************************************************************)
IsoFormat(t) == <<"T", t>>
FromIsoFormat(x) == x[2]

(***************************************************************************)
(* Maps (Python dicts; a dict of models carries its order, see Orders).    *)
(***************************************************************************)
MapSet(f, k, v) == [x \in DOMAIN f \cup {k} |-> IF x = k THEN v ELSE f[x]]
MapDel(f, k) == [x \in DOMAIN f \ {k} |-> f[x]]

(***************************************************************************)
(* Prompt: an object is [nombre, models, order, default_model,             *)
(* last_updated], models a map from model names to [content, parameters,   *)
(* last_updated] and order the sequence of the keys of that dict in the    *)
(* order the dict holds them (insertion order).                            *)
(***************************************************************************)
PromptModelObj(content, parameters, t) ==
    [content |-> content, parameters |-> parameters, last_updated |-> t]

PromptObj(nombre, models, order, default_model, t) ==
    [nombre |-> nombre, models |-> models, order |-> order,
     default_model |-> default_model, last_updated |-> t]

validate_nombre(nombre) ==
    IF Strip(nombre) = <<>> THEN Raise("ValidationError") ELSE Ok

\* the body of the loop of Prompt._validate_models for one model
ValidateOneModel(model_name, model) ==
    IF Strip(model_name) = <<>> THEN Raise("ValidationError")
    ELSE validate_template(model.content, model.parameters)

\* str.__lt__: the characters of the names in code-point order, and the
\* order of two strings by their first differing character
CodePoints == <<" ", "0", "_", "a", "b", "m", "n", "p", "q">>
Ord(c) == CHOOSE i \in DOMAIN CodePoints : CodePoints[i] = c
RECURSIVE StrLess(_, _)
StrLess(a, b) ==
    IF Len(a) = 0 THEN Len(b) > 0
    ELSE IF Len(b) = 0 THEN FALSE
    ELSE IF Head(a) = Head(b) THEN StrLess(Tail(a), Tail(b))
    ELSE Ord(Head(a)) < Ord(Head(b))

\* A dict of models is a map from model names together with the order in
\* which the dict holds its keys, a sequence naming each key once.
Orders(keys) ==
    {o \in [1..Cardinality(keys) -> keys] :
        \A i, j \in DOMAIN o : o[i] = o[j] => i = j}

\* Prompt._validate_models: the loop over self.models.items(), in the
\* dict's order; the first model that fails raises
RECURSIVE FirstFailure(_, _)
FirstFailure(models, order) ==
    IF order = <<>> THEN Ok
    ELSE LET v == ValidateOneModel(Head(order), models[Head(order)])
         IN  IF v.err # "none" THEN v ELSE FirstFailure(models, Tail(order))

validate_models(models, order) ==
    IF DOMAIN models = {} THEN Raise("ValidationError")
    ELSE FirstFailure(models, order)

validate_default_model(models, default_model) ==
    IF default_model # None /\ default_model \notin DOMAIN models
    THEN Raise("ValidationError")
    ELSE Ok

\* Prompt.__post_init__
PromptInit_default_first(nombre, models, order, default_model) ==
    OrElse(validate_nombre(nombre),
           OrElse(validate_default_model(models, default_model),
                  validate_models(models, order)))
PromptInit(nombre, models, order, default_model) ==
    OrElse(validate_nombre(nombre),
           OrElse(validate_models(models, order),
                  validate_default_model(models, default_model)))

\* the result of a method of Prompt: the outcome and the prompt after it
Done(prompt) == [err |-> "none", names |-> {}, prompt |-> prompt]
Failed(r, prompt) == [err |-> r.err, names |-> r.names, prompt |-> prompt]


add_model(prompt, model_name, model, t) ==
    IF model_name \in DOMAIN prompt.models THEN Failed(Raise("ValidationError"), prompt)
    ELSE LET v == validate_template(model.content, model.parameters)
         IN  IF v.err # "none" THEN Failed(v, prompt)
             ELSE Done([prompt EXCEPT !.models = MapSet(@, model_name, model),
                                      !.order = Append(@, model_name),
                                      !.last_updated = t])

update_model(prompt, model_name, model, t) ==
    IF model_name \notin DOMAIN prompt.models THEN Failed(Raise("ValidationError"), prompt)
    ELSE LET v == validate_template(model.content, model.parameters)
         IN  IF v.err # "none" THEN Failed(v, prompt)
             ELSE Done([prompt EXCEPT !.models = MapSet(@, model_name, model),
                                      !.last_updated = t])

\* remove_model without the refusal of the default model
remove_model_any(prompt, model_name, t) ==
    IF model_name \notin DOMAIN prompt.models THEN Failed(Raise("ValidationError"), prompt)
    ELSE Done([prompt EXCEPT !.models = MapDel(@, model_name),
                             !.order = SelectSeq(@, LAMBDA k : k # model_name),
                             !.last_updated = t])

remove_model(prompt, model_name, t) ==
    IF model_name \notin DOMAIN prompt.models THEN Failed(Raise("ValidationError"), prompt)
    ELSE IF prompt.default_model = model_name THEN Failed(Raise("ValidationError"), prompt)
    ELSE Done([prompt EXCEPT !.models = MapDel(@, model_name),
                             !.order = SelectSeq(@, LAMBDA k : k # model_name),
                             !.last_updated = t])


set_default_model(prompt, model_name, t) ==
    IF model_name \notin DOMAIN prompt.models THEN Failed(Raise("ValidationError"), prompt)
    ELSE Done([prompt EXCEPT !.default_model = model_name, !.last_updated = t])

\* Prompt.get_model: the outcome and the name of the model resolved
get_model(prompt, model_name) ==
    IF model_name = None /\ prompt.default_model = None
    THEN [err |-> "ValidationError", name |-> None]
    ELSE LET n == IF model_name = None THEN prompt.default_model ELSE model_name
         IN  IF n \notin DOMAIN prompt.models
             THEN [err |-> "ValidationError", name |-> n]
             ELSE [err |-> "none", name |-> n]

\* Prompt.build_prompt
build_prompt(prompt, params, model_name) ==
    LET g == get_model(prompt, model_name)
    IN  IF g.err # "none" THEN FmtErr(g.err)
        ELSE build(prompt.models[g.name].content, prompt.models[g.name].parameters,
                   params)

\* PromptModel.to_dict and Prompt.to_dict
ModelToDict(model) ==
    [content |-> model.content, parameters |-> model.parameters,
     last_updated |-> IsoFormat(model.last_updated)]

to_dict(prompt) ==
    [nombre |-> prompt.nombre,
     default_model |-> prompt.default_model,
     models |-> [n \in DOMAIN prompt.models |-> ModelToDict(prompt.models[n])],
     order |-> prompt.order,
     last_updated |-> IsoFormat(prompt.last_updated)]

\* PromptModel.from_dict without its validation
ModelFromDict(data) ==
    PromptModelObj(data.content, data.parameters, FromIsoFormat(data.last_updated))

\* Prompt.from_dict: every PromptModel is constructed, then the Prompt
\* the Prompt built from the models and fields read, checked by __post_init__
Constructed(prompt) ==
    Failed(PromptInit(prompt.nombre, prompt.models, prompt.order,
                      prompt.default_model),
           prompt)

from_dict(data) ==
    IF \E n \in DOMAIN data.models :
          PromptModelInit(data.models[n].content, data.models[n].parameters).err # "none"
    THEN [err |-> "ValidationError", names |-> {}, prompt |-> None]
    ELSE Constructed(PromptObj(data.nombre,
                               [n \in DOMAIN data.models |->
                                   ModelFromDict(data.models[n])],
                               data.order, data.default_model,
                               FromIsoFormat(data.last_updated)))

(***************************************************************************)
(* core/utils.py                                                           *)
(***************************************************************************)
InvalidChars == {"/", "\\", ":", "*", "?", "\"", "<", ">", "|"}

\* validate_prompt_name: the outcome and the trimmed name
validate_prompt_name(name) ==
    IF name = <<>> THEN [err |-> "ValueError", value |-> name]
    ELSE IF Strip(name) = <<>> THEN [err |-> "ValueError", value |-> name]
    ELSE IF \E i \in DOMAIN Strip(name) : Strip(name)[i] \in InvalidChars
    THEN [err |-> "ValueError", value |-> name]
    ELSE [err |-> "none", value |-> Strip(name)]

\* validate_model_name
validate_model_name(name) ==
    IF name = <<>> THEN [err |-> "ValueError", value |-> name]
    ELSE IF Strip(name) = <<>> THEN [err |-> "ValueError", value |-> name]
    ELSE [err |-> "none", value |-> Strip(name)]

(***************************************************************************)
(* The template cases: a PromptModel is constructed from (content,         *)
(* parameters), its template is validated as Prompt does, and it is built  *)
(* with a mapping of values.                                               *)
(***************************************************************************)
Pieces == {<<"{">>, <<"}">>, <<"a">>, <<" ">>, <<"{", "a", "}">>, <<"{", "b", "}">>}

RECURSIVE ContentsOf(_)
ContentsOf(k) ==
    IF k = 0 THEN {<<>>}
    ELSE LET shorter == ContentsOf(k - 1)
         IN  shorter \cup {c \o p : c \in shorter, p \in Pieces}

Contents == ContentsOf(MaxPieces)

ParamNames == {<<"a">>, <<"b">>}
ParamLists ==
    {<<>>} \cup {<<x>> : x \in ParamNames \cup {<<" ">>}}
           \cup {<<x, y>> : x \in ParamNames, y \in ParamNames}

ValueStrings == {<<"q">>, <<"{", "b", "}">>}
ValueMaps == UNION {[K -> ValueStrings] : K \in SUBSET ParamNames}

NoCase == [stage |-> "off"]

TInit ==
    \E c \in Contents, ps \in ParamLists :
        tcase = [stage |-> "input", content |-> c, parameters |-> ps,
                 values |-> [k \in {} |-> <<>>], res |-> FmtOk(<<>>)]

\* PromptModel(content=..., parameters=...)
TConstruct ==
    /\ tcase.stage = "input"
    /\ LET r == PromptModelInit(tcase.content, tcase.parameters)
       IN  tcase' = [tcase EXCEPT
                        !.stage = IF r.err = "none" THEN "model" ELSE "rejected",
                        !.res = [err |-> r.err, out |-> <<>>, names |-> r.names]]
    /\ UNCHANGED backend

\* model.validate_template(), as Prompt._validate_models, add_model and
\* update_model call it on a constructed model
TValidate ==
    /\ tcase.stage = "model"
    /\ LET r == validate_template(tcase.content, tcase.parameters)
       IN  tcase' = [tcase EXCEPT
                        !.stage = IF r.err = "none" THEN "valid" ELSE "invalid",
                        !.res = [err |-> r.err, out |-> <<>>, names |-> r.names]]
    /\ UNCHANGED backend

\* model.build(params) on a constructed model
TBuild ==
    /\ tcase.stage \in {"model", "valid", "invalid"}
    /\ \E vs \in ValueMaps :
        tcase' = [tcase EXCEPT
                     !.stage = IF tcase.stage = "valid" THEN "built" ELSE "built_raw",
                     !.values = vs,
                     !.res = build(tcase.content, tcase.parameters, vs)]
    /\ UNCHANGED backend

NoFile == [exists |-> FALSE]
NoCall == [op |-> "none"]
NoConnection == [name |-> "none"]
EmptyMap == [k \in {} |-> None]

BackendIdle ==
    /\ prompts = EmptyMap
    /\ history = EmptyMap
    /\ disk = NoFile
    /\ now = [i \in 1..MaxReads |-> 0]
    /\ appended = 0
    /\ last = NoCall
    /\ prev = NoCall
    /\ asked = NoCall

InitTemplate == BackendIdle /\ profile = "none" /\ conn = NoConnection /\ TInit

NextTemplate == TConstruct \/ TValidate \/ TBuild

SpecTemplate == InitTemplate /\ [][NextTemplate]_vars

(***************************************************************************)
(* Properties of the template engine (SpecTemplate).                       *)
(***************************************************************************)
\* the {identifier} tokens of s, stated on the text: an opening brace, one or
\* more word characters, a closing brace
IsToken(s, i, j) ==
    /\ i + 1 < j
    /\ s[i] = "{"
    /\ s[j] = "}"
    /\ \A k \in (i + 1)..(j - 1) : IsWord(s[k])

Placeholders(s) ==
    {SubSeq(s, ij[1] + 1, ij[2] - 1) :
        ij \in {x \in (DOMAIN s) \X (DOMAIN s) : IsToken(s, x[1], x[2])}}

\* the end of the token that starts at i, 0 if none starts there
TokenEnd(s, i) ==
    IF \E j \in DOMAIN s : IsToken(s, i, j)
    THEN CHOOSE j \in DOMAIN s : IsToken(s, i, j)
    ELSE 0

\* s from position i on with every token {p} replaced by values[p] and every
\* other character kept
RECURSIVE Substituted(_, _, _)
Substituted(s, i, values) ==
    IF i > Len(s) THEN <<>>
    ELSE LET j == TokenEnd(s, i)
         IN  IF j > 0
             THEN values[SubSeq(s, i + 1, j - 1)] \o Substituted(s, j + 1, values)
             ELSE <<s[i]>> \o Substituted(s, i + 1, values)

NoValues == [k \in {} |-> <<>>]

\* C7: validating (content, parameters) fails with MissingParameter naming
\* placeholders - parameters when that set is not empty, else with
\* ExtraParameter naming parameters - placeholders when that set is not empty,
\* else succeeds.
C7_ValidationOrder ==
    tcase.stage \in {"valid", "invalid"} =>
        LET ph == Placeholders(tcase.content)
            ps == Range(tcase.parameters)
        IN  IF ph \ ps # {}
            THEN /\ tcase.stage = "invalid"
                 /\ tcase.res.err = "MissingParameterError"
                 /\ tcase.res.names = ph \ ps
            ELSE IF ps \ ph # {}
            THEN /\ tcase.stage = "invalid"
                 /\ tcase.res.err = "ExtraParameterError"
                 /\ tcase.res.names = ps \ ph
            ELSE tcase.stage = "valid" /\ tcase.res.err = "none"

\* a template with both a missing and an extra parameter has been validated
C7_Witness ==
    /\ tcase.stage = "invalid"
    /\ Placeholders(tcase.content) \ Range(tcase.parameters) # {}
    /\ Range(tcase.parameters) \ Placeholders(tcase.content) # {}
    /\ tcase.res.err = "MissingParameterError"

\* C8: building a valid template with values for exactly its parameters
\* returns the content with each {p} replaced by values[p] and every other
\* character unchanged.
C8_RenderSubstitutes ==
    (tcase.stage = "built" /\ DOMAIN tcase.values = Range(tcase.parameters)) =>
        /\ tcase.res.err = "none"
        /\ tcase.res.out = Substituted(tcase.content, 1, tcase.values)

\* C10: a constructed template with no {identifier} token and no parameters
\* is valid, and building it with no values returns the content unchanged.
C10_NoPlaceholderUnchanged ==
    (tcase.stage \notin {"input", "rejected"}
        /\ tcase.parameters = <<>> /\ Placeholders(tcase.content) = {}) =>
        /\ tcase.stage # "invalid"
        /\ (tcase.stage \in {"built", "built_raw"} /\ tcase.values = NoValues) =>
               (tcase.res.err = "none" /\ tcase.res.out = tcase.content)

\* a value that holds no brace, standing for the value of parameter k
Marker(k) == <<"<">> \o k \o <<">">>

\* the position of the > that closes the marker starting at i
RECURSIVE MarkerEnd(_, _)
MarkerEnd(s, i) == IF s[i] = ">" THEN i ELSE MarkerEnd(s, i + 1)

\* s from position i on with every marker replaced by the value it stands for
RECURSIVE Expanded(_, _, _)
Expanded(s, i, values) ==
    IF i > Len(s) THEN <<>>
    ELSE IF s[i] = "<"
    THEN LET j == MarkerEnd(s, i)
         IN  values[SubSeq(s, i + 1, j - 1)] \o Expanded(s, j + 1, values)
    ELSE <<s[i]>> \o Expanded(s, i + 1, values)

\* C11: substitution is single-pass: a build that succeeds returns what the
\* same build returns for values that hold no brace, with each such value
\* replaced by the supplied one, so a {identifier} inside a supplied value
\* is in the output verbatim and is not replaced by any value.
C11_SinglePass ==
    (tcase.stage \in {"built", "built_raw"} /\ tcase.res.err = "none") =>
        LET opaque == [k \in DOMAIN tcase.values |-> Marker(k)]
            r == build(tcase.content, tcase.parameters, opaque)
        IN  /\ r.err = "none"
            /\ tcase.res.out = Expanded(r.out, 1, tcase.values)

\* a valid template {a}...{b}... was built with, for a, a value that holds
\* the placeholder of the other declared parameter b
C11_Witness ==
    /\ tcase.stage = "built" /\ tcase.res.err = "none"
    /\ Placeholders(tcase.content) = {<<"a">>, <<"b">>}
    /\ tcase.values[<<"a">>] = <<"{", "b", "}">>
    /\ tcase.values[<<"b">>] = <<"q">>
    /\ Placeholders(tcase.res.out) = {<<"b">>}

(***************************************************************************)
(* YamlHandler.  A call yields the exception raised ("none" if it          *)
(* returned), the in-memory document it leaves (a call that raises midway  *)
(* keeps the changes it had made to self.data), whether _save_data ran,    *)
(* and the value returned.  A call reads the clock several times, the      *)
(* i-th datetime.now() it runs giving datetime_now(i).                     *)
(***************************************************************************)
datetime_now(i) == now[i]

Unchanged(kind) ==
    [err |-> kind, prompts |-> prompts, history |-> history, saved |-> FALSE,
     ret |-> None]
Partial(kind, P, H) ==
    [err |-> kind, prompts |-> P, history |-> H, saved |-> FALSE, ret |-> None]
Saved(P, H, ret) ==
    [err |-> "none", prompts |-> P, history |-> H, saved |-> TRUE, ret |-> ret]
Returned(ret) ==
    [err |-> "none", prompts |-> prompts, history |-> history, saved |-> FALSE,
     ret |-> ret]

\* _add_to_history storing the new entry in place of the name's entries
add_to_history_overwrite(H, prompt, action, model_name, t) ==
    MapSet(H, prompt.nombre,
           <<[timestamp |-> IsoFormat(t), action |-> action,
              prompt_data |-> to_dict(prompt),
              model_name |-> IF model_name # None /\ model_name # <<>>
                             THEN model_name ELSE None]>>)

\* YamlHandler._add_to_history on the history H, t the instant it reads
add_to_history(H, prompt, action, model_name, t) ==
    LET history_entry ==
            [timestamp |-> IsoFormat(t),
             action |-> action,
             prompt_data |-> to_dict(prompt),
             model_name |-> IF model_name # None /\ model_name # <<>>
                            THEN model_name ELSE None]
        old == IF prompt.nombre \in DOMAIN H THEN H[prompt.nombre] ELSE <<>>
    IN  MapSet(H, prompt.nombre, Append(old, history_entry))

\* YamlHandler.get_prompt: the outcome and the Prompt
yaml_get_prompt(name) ==
    LET v == validate_prompt_name(name)
    IN  IF v.err # "none" THEN [err |-> v.err, names |-> {}, prompt |-> None]
        ELSE IF v.value \notin DOMAIN prompts
        THEN [err |-> "PromptNotFoundError", names |-> {}, prompt |-> None]
        ELSE from_dict(prompts[v.value])

yaml_create_prompt(name, model_name, content, parameters, default_model) ==
    LET vn == validate_prompt_name(name)
        vm == validate_model_name(model_name)
        pm == PromptModelInit(content, parameters)
        dflt == IF default_model = None \/ default_model = <<>>
                THEN vm.value ELSE default_model
        models == MapSet([k \in {} |-> None], vm.value,
                         PromptModelObj(content, parameters, datetime_now(1)))
        pi == PromptInit(vn.value, models, <<vm.value>>, dflt)
        prompt == PromptObj(vn.value, models, <<vm.value>>, dflt, datetime_now(2))
    IN  IF vn.err # "none" THEN Unchanged(vn.err)
        ELSE IF vm.err # "none" THEN Unchanged(vm.err)
        ELSE IF vn.value \in DOMAIN prompts THEN Unchanged("ValidationError")
        ELSE IF pm.err # "none" THEN Unchanged(pm.err)
        ELSE IF pi.err # "none" THEN Unchanged(pi.err)
        ELSE Saved(MapSet(prompts, vn.value, to_dict(prompt)),
                   add_to_history(history, prompt, "create", None, datetime_now(3)),
                   prompt)

yaml_build_prompt(name, params, model_name) ==
    LET g == yaml_get_prompt(name)
    IN  IF g.err # "none" THEN Unchanged(g.err)
        ELSE LET b == build_prompt(g.prompt, params, model_name)
             IN  IF b.err # "none" THEN Unchanged(b.err) ELSE Returned(b.out)

\* update_prompt once the new default model, if any, has been set on the
\* prompt (sd is the outcome of that step): the final write and _save_data
update_prompt_write(P1, H1, sd) ==
    IF sd.err # "none" THEN Partial(sd.err, P1, H1)
    ELSE Saved(MapSet(P1, sd.prompt.nombre, to_dict(sd.prompt)), H1, sd.prompt)

\* update_prompt from the history entry on, for the prompt get_prompt returned
update_prompt_loaded(name, new_name, default_model, prompt) ==
    LET H1 == add_to_history(history, prompt, "update_metadata", None, datetime_now(1))
        vn == validate_prompt_name(new_name)
        renamed == new_name # None
        P1 == IF renamed THEN MapSet(MapDel(prompts, name), vn.value, prompts[name])
              ELSE prompts
        prompt1 == IF renamed THEN [prompt EXCEPT !.nombre = vn.value] ELSE prompt
    IN  IF renamed /\ vn.err # "none" THEN Partial(vn.err, prompts, H1)
        ELSE IF renamed /\ vn.value # name /\ vn.value \in DOMAIN prompts
        THEN Partial("ValidationError", prompts, H1)
        ELSE IF renamed /\ name \notin DOMAIN prompts
        THEN Partial("KeyError", prompts, H1)
        ELSE update_prompt_write(P1, H1,
                 IF default_model # None
                 THEN set_default_model(prompt1, default_model, datetime_now(2))
                 ELSE Done(prompt1))

yaml_update_prompt(name, new_name, default_model) ==
    LET g == yaml_get_prompt(name)
    IN  IF g.err # "none" THEN Unchanged(g.err)
        ELSE update_prompt_loaded(name, new_name, default_model, g.prompt)

yaml_update_model(name, model_name, content, parameters) ==
    LET g == yaml_get_prompt(name)
        H1 == add_to_history(history, g.prompt, "update_model", model_name,
                             datetime_now(1))
        pm == PromptModelInit(content, parameters)
        u == update_model(g.prompt, model_name,
                          PromptModelObj(content, parameters, datetime_now(2)),
                          datetime_now(3))
    IN  IF g.err # "none" THEN Unchanged(g.err)
        ELSE IF pm.err # "none" THEN Partial(pm.err, prompts, H1)
        ELSE IF u.err # "none" THEN Partial(u.err, prompts, H1)
        ELSE Saved(MapSet(prompts, name, to_dict(u.prompt)), H1, u.prompt)

yaml_add_model(name, model_name, content, parameters) ==
    LET g == yaml_get_prompt(name)
        pm == PromptModelInit(content, parameters)
        a == add_model(g.prompt, model_name,
                       PromptModelObj(content, parameters, datetime_now(1)),
                       datetime_now(2))
    IN  IF g.err # "none" THEN Unchanged(g.err)
        ELSE IF pm.err # "none" THEN Unchanged(pm.err)
        ELSE IF a.err # "none" THEN Unchanged(a.err)
        ELSE Saved(MapSet(prompts, name, to_dict(a.prompt)),
                   add_to_history(history, a.prompt, "add_model", model_name,
                                  datetime_now(3)),
                   a.prompt)

yaml_remove_model(name, model_name) ==
    LET g == yaml_get_prompt(name)
        H1 == add_to_history(history, g.prompt, "remove_model", model_name,
                             datetime_now(1))
        r == remove_model(g.prompt, model_name, datetime_now(2))
    IN  IF g.err # "none" THEN Unchanged(g.err)
        ELSE IF r.err # "none" THEN Partial(r.err, prompts, H1)
        ELSE Saved(MapSet(prompts, name, to_dict(r.prompt)), H1, r.prompt)

yaml_delete_prompt(name) ==
    LET g == yaml_get_prompt(name)
        H1 == add_to_history(history, g.prompt, "delete", None, datetime_now(1))
    IN  IF g.err # "none" THEN Unchanged(g.err)
        ELSE IF name \notin DOMAIN prompts THEN Partial("KeyError", prompts, H1)
        ELSE Saved(MapDel(prompts, name), H1, None)

\* SelectEntry taking the latest of the entries that share the timestamp
SelectEntry_latest(h, timestamp) ==
    IF timestamp = None THEN Len(h)
    ELSE IF \E i \in DOMAIN h : h[i].timestamp = timestamp
    THEN CHOOSE i \in DOMAIN h :
            /\ h[i].timestamp = timestamp
            /\ \A j \in (i + 1)..Len(h) : h[j].timestamp # timestamp
    ELSE 0

\* SelectEntry falling back to the last entry when no timestamp matches
SelectEntry_fallback(h, timestamp) ==
    IF timestamp = None THEN Len(h)
    ELSE IF \E i \in DOMAIN h : h[i].timestamp = timestamp
    THEN CHOOSE i \in DOMAIN h :
            /\ h[i].timestamp = timestamp
            /\ \A j \in 1..(i - 1) : h[j].timestamp # timestamp
    ELSE Len(h)

\* the entry restore_prompt selects in the history h: its index, 0 if none
SelectEntry(h, timestamp) ==
    IF timestamp = None THEN Len(h)
    ELSE IF \E i \in DOMAIN h : h[i].timestamp = timestamp
    THEN CHOOSE i \in DOMAIN h :
            /\ h[i].timestamp = timestamp
            /\ \A j \in 1..(i - 1) : h[j].timestamp # timestamp
    ELSE 0

yaml_restore_prompt(name, timestamp) ==
    IF name \notin DOMAIN history THEN Unchanged("HistoryError")
    ELSE IF history[name] = <<>> THEN Unchanged("HistoryError")
    ELSE LET i == SelectEntry(history[name], timestamp)
             f == from_dict(history[name][i].prompt_data)
         IN  IF i = 0 THEN Unchanged("HistoryError")
             ELSE IF f.err # "none" THEN Unchanged(f.err)
             ELSE Saved(MapSet(prompts, name, to_dict(f.prompt)),
                        add_to_history(history, f.prompt, "restore", None, datetime_now(1)),
                        f.prompt)

\* clear_history that drops every name's history whatever name it is given
yaml_clear_history_all(name) == Saved(prompts, [k \in {} |-> None], None)

yaml_clear_history(name) ==
    IF name = None THEN Saved(prompts, [k \in {} |-> None], None)
    ELSE Saved(prompts, MapDel(history, name), None)

yaml_list_prompts == DOMAIN prompts

\* get_history keeping, under a model filter, the entries without a tag too
yaml_get_history_untagged(name, model_name) ==
    IF name = None THEN history
    ELSE IF name \notin DOMAIN history THEN EmptyMap
    ELSE MapSet(EmptyMap, name,
                SelectSeq(history[name],
                          LAMBDA e : model_name = None
                                     \/ e.model_name \in {model_name, None}))

\* YamlHandler.get_history: the mapping returned
yaml_get_history(name, model_name) ==
    IF name = None THEN history
    ELSE IF name \notin DOMAIN history THEN EmptyMap
    ELSE IF model_name = None THEN MapSet(EmptyMap, name, history[name])
    ELSE MapSet(EmptyMap, name,
                SelectSeq(history[name], LAMBDA e : e.model_name = model_name))

\* the path create_backup gives the copy: the file's path with ".backup"
BackupPath == <<"file", ".backup">>

\* YamlHandler.backup, that is create_backup(file_path): None when the file
\* does not exist, else the file is copied and the path of the copy returned
yaml_backup == Returned(IF disk.exists THEN BackupPath ELSE None)

(***************************************************************************)
(* The calls a client issues through PromptSuite, which passes each to     *)
(* the handler unchanged.                                                  *)
(***************************************************************************)
NameP == <<"p">>
NameQ == <<"q">>
PaddedP == <<" ", "p">>
ModelM == <<"m">>
ModelN == <<"n">>
BlankModel == <<" ">>
T0 == [content |-> <<"a">>, parameters |-> <<>>]
T1 == [content |-> <<"{", "a", "}">>, parameters |-> <<<<"a">>>>]
TMissing == [content |-> <<"{", "a", "}">>, parameters |-> <<>>]
TExtra == [content |-> <<"a">>, parameters |-> <<<<"a">>>>]
Timestamps == {IsoFormat(t) : t \in 0..MaxTime}
BuildValues == UNION {[K -> {<<"q">>}] : K \in SUBSET ParamNames}
\* the (name, model_name) pairs get_history is called with
HistoryQueries ==
    {<<None, None>>, <<None, ModelM>>, <<NameP, None>>, <<NameP, ModelM>>,
     <<NameP, ModelN>>, <<NameQ, ModelM>>}

\* The arguments of the calls of each family: "docs" creates, renames,
\* deletes and restores prompts while time passes, "models" works on the
\* models of one prompt, "edge" passes padded prompt names and blank model
\* names, "swap" changes the default model of one prompt and removes models.
Profiles == {"docs", "models", "edge", "swap"}

Inputs ==
    CASE profile = "docs" ->
            [names |-> {NameP, NameQ}, create_models |-> {ModelM}, create_defaults |-> {None},
             create_templates |-> {T1},
             new_names |-> {None, NameP, NameQ}, defaults |-> {None, ModelN},
             models |-> {}, templates |-> {}, timestamps |-> {None} \cup Timestamps,
             build_models |-> {None}, values |-> {}, clear |-> {None, NameP, NameQ},
             queries |-> {}, tick |-> TRUE]
      [] profile = "models" ->
            [names |-> {NameP}, create_models |-> {ModelM}, create_defaults |-> {None, ModelN},
             create_templates |-> {T0, T1, TMissing, TExtra},
             new_names |-> {None}, defaults |-> {ModelM, ModelN},
             models |-> {ModelM, ModelN}, templates |-> {T0, T1, TMissing, TExtra},
             timestamps |-> {None, IsoFormat(0)},
             build_models |-> {None, ModelM, ModelN}, values |-> BuildValues, clear |-> {None},
             queries |-> HistoryQueries, tick |-> FALSE]
      [] profile = "edge" ->
            [names |-> {NameP, PaddedP}, create_models |-> {ModelM, BlankModel},
             create_defaults |-> {None}, create_templates |-> {T1},
             new_names |-> {None, NameQ, PaddedP}, defaults |-> {None, ModelM},
             models |-> {ModelM, BlankModel}, templates |-> {T1},
             timestamps |-> {None},
             build_models |-> {None, BlankModel}, values |-> {[k \in {<<"a">>} |-> <<"q">>]},
             clear |-> {}, queries |-> {},
             tick |-> FALSE]
      [] profile = "swap" ->
            [names |-> {NameP, PaddedP}, create_models |-> {ModelM}, create_defaults |-> {None},
             create_templates |-> {T0},
             new_names |-> {None}, defaults |-> {ModelN},
             models |-> {ModelM, ModelN}, templates |-> {T0},
             timestamps |-> {},
             build_models |-> {None}, values |-> {EmptyMap}, clear |-> {},
             queries |-> {}, tick |-> FALSE]
      [] profile = "plugin" ->
            [names |-> {NameP, NameQ}, create_models |-> {ModelM},
             create_defaults |-> {None, ModelN}, create_templates |-> {T1, TMissing},
             new_names |-> {None, NameQ}, defaults |-> {None, ModelN},
             models |-> {ModelM, ModelN}, templates |-> {T0, TMissing},
             timestamps |-> {None, IsoFormat(0)},
             build_models |-> {None}, values |-> {[k \in {<<"a">>} |-> <<"q">>]},
             clear |-> {NameP}, queries |-> {}, tick |-> FALSE]
      [] profile \in {"fault", "async"} ->
            [names |-> {NameP}, create_models |-> {ModelM},
             create_defaults |-> {None}, create_templates |-> {T0},
             new_names |-> {None, NameQ}, defaults |-> {None},
             models |-> {ModelN}, templates |-> {T0},
             timestamps |-> {None},
             build_models |-> {None}, values |-> {[k \in {} |-> <<>>]},
             clear |-> {None, NameP}, queries |-> {}, tick |-> FALSE]
      [] OTHER ->
            [names |-> {}, create_models |-> {}, create_defaults |-> {},
             create_templates |-> {}, new_names |-> {}, defaults |-> {},
             models |-> {}, templates |-> {}, timestamps |-> {},
             build_models |-> {}, values |-> {}, clear |-> {}, queries |-> {},
             tick |-> FALSE]

RECURSIVE SumLen(_, _)
SumLen(H, names) ==
    IF names = {} THEN 0
    ELSE LET n == CHOOSE x \in names : TRUE
         IN  Len(H[n]) + SumLen(H, names \ {n})

\* the number of history entries of the document
HistTotal(H) == SumLen(H, DOMAIN H)

\* the active entry stored under key, None if there is none
EntryOf(P, key) == IF key \in DOMAIN P THEN P[key] ELSE None

\* the number of entries the history G holds beyond the history H
Grown(H, G) == HistTotal(G) - HistTotal(H)

\* the history entries a run may append: a change of default followed by a
\* removal (create, add_model, update_prompt, remove_model) takes one more
\* entry than the other families need
Budget == IF profile = "swap" THEN MaxHist + 1 ELSE MaxHist

\* sorted(keys): the one order of the keys that ascends
SortedKeys(keys) ==
    CHOOSE o \in Orders(keys) : \A i \in 1..(Len(o) - 1) : StrLess(o[i], o[i + 1])

\* save_yaml_file: yaml.dump writes every mapping with its keys sorted, so
\* that the models of each prompt, active or held by a history entry, stand
\* in the file in ascending order of their names
save_yaml_file(data) ==
    LET dump(e) == [e EXCEPT !.order = SortedKeys(DOMAIN e.models)]
    IN  [exists |-> TRUE,
         prompts |-> [k \in DOMAIN data.prompts |-> dump(data.prompts[k])],
         history |-> [n \in DOMAIN data.history |->
                         [i \in DOMAIN data.history[n] |->
                             [data.history[n][i] EXCEPT !.prompt_data = dump(@)]]]]

\* the document before a call, kept with the call's record together with the
\* last call that had changed it
Doc == [prompts |-> prompts, history |-> history]

\* a client issues a call, which runs to its end
Call(op, name, model, arg, r) ==
    /\ last = NoCall
    /\ op \notin {"clear_history"} => appended + Grown(history, r.history) <= Budget
    /\ prompts' = r.prompts
    /\ history' = r.history
    /\ disk' = IF r.saved
               THEN save_yaml_file([prompts |-> r.prompts, history |-> r.history])
               ELSE disk
    /\ appended' = IF op = "clear_history" THEN appended
                   ELSE appended + Grown(history, r.history)
    /\ last' = [op |-> op, name |-> name, model |-> model, arg |-> arg,
                err |-> r.err, ret |-> r.ret, before |-> Doc, prev |-> prev,
                asked |-> asked, clock |-> now]
    /\ prev' = IF r.prompts # prompts \/ r.history # history
               THEN [op |-> op, name |-> name, model |-> model, arg |-> arg,
                     err |-> r.err, entry |-> EntryOf(prompts, name)]
               ELSE prev
    /\ asked' = IF op = "get_history"
                THEN [op |-> op, name |-> name, model |-> model, ret |-> r.ret]
                ELSE IF r.prompts # prompts \/ r.history # history THEN NoCall
                ELSE asked
    /\ now' = [i \in 1..MaxReads |-> now[YamlReads]]
    /\ UNCHANGED <<profile, tcase, conn>>

\* the client takes the result
Return ==
    /\ last # NoCall
    /\ last' = NoCall
    /\ UNCHANGED <<prompts, history, disk, now, appended, prev, asked, profile, tcase,
                   conn>>

CreatePrompt ==
    \E name \in Inputs.names, m \in Inputs.create_models,
       t \in Inputs.create_templates, d \in Inputs.create_defaults :
        Call("create_prompt", name, m, [template |-> t, default_model |-> d],
             yaml_create_prompt(name, m, t.content, t.parameters, d))

GetPrompt ==
    \E name \in Inputs.names :
        LET g == yaml_get_prompt(name)
        IN  Call("get_prompt", name, None, None,
                 IF g.err # "none" THEN Unchanged(g.err) ELSE Returned(g.prompt))

BuildPrompt ==
    \E name \in Inputs.names, vs \in Inputs.values, m \in Inputs.build_models :
        Call("build_prompt", name, m, vs, yaml_build_prompt(name, vs, m))

UpdatePrompt ==
    \E name \in Inputs.names, nn \in Inputs.new_names, d \in Inputs.defaults :
        Call("update_prompt", name, d, nn, yaml_update_prompt(name, nn, d))

UpdateModel ==
    \E name \in Inputs.names, m \in Inputs.models, t \in Inputs.templates :
        Call("update_model", name, m, t,
             yaml_update_model(name, m, t.content, t.parameters))

AddModel ==
    \E name \in Inputs.names, m \in Inputs.models, t \in Inputs.templates :
        Call("add_model", name, m, t,
             yaml_add_model(name, m, t.content, t.parameters))

RemoveModel ==
    \E name \in Inputs.names, m \in Inputs.models :
        Call("remove_model", name, m, None, yaml_remove_model(name, m))

DeletePrompt ==
    \E name \in Inputs.names :
        Call("delete_prompt", name, None, None, yaml_delete_prompt(name))

RestorePrompt ==
    \E name \in Inputs.names, ts \in Inputs.timestamps :
        Call("restore_prompt", name, None, ts, yaml_restore_prompt(name, ts))

ClearHistory ==
    \E name \in Inputs.clear :
        Call("clear_history", name, None, None, yaml_clear_history(name))

\* a get_history that takes the entries it returns out of the history
get_history_taking(name, model_name) ==
    [err |-> "none", prompts |-> prompts,
     history |-> [n \in DOMAIN history \ DOMAIN yaml_get_history(name, model_name) |->
                     history[n]],
     saved |-> FALSE, ret |-> yaml_get_history(name, model_name)]
\* PromptSuite.get_history: the mapping the handler returns, nothing assigned
\* and nothing saved
get_history(name, model_name) == Returned(yaml_get_history(name, model_name))

GetHistory ==
    \E q \in Inputs.queries :
        Call("get_history", q[1], q[2], None, get_history(q[1], q[2]))

\* backup(), issued by the client that works on the models of a prompt
Backup ==
    /\ profile = "models"
    /\ Call("backup", None, None, None, yaml_backup)

ListPrompts ==
    /\ profile \in Profiles
    /\ Call("list_prompts", None, None, None, Returned(yaml_list_prompts))

\* time passes, between two calls and between the clock readings of the
\* next call: the readings are in order and none is earlier than the clock
\* at the end of the last call.  The file backend never makes a reading
\* after the YamlReads-th, which stands for the later ones.
Tick ==
    /\ Inputs.tick
    /\ last = NoCall
    /\ \E t \in [1..MaxReads -> 0..MaxTime] :
          /\ now[MaxReads] <= t[1]
          /\ \A i \in 1..(YamlReads - 1) : t[i] <= t[i + 1]
          /\ \A i \in YamlReads..MaxReads : t[i] = t[YamlReads]
          /\ t # now
          /\ now' = t
    /\ UNCHANGED <<prompts, history, disk, appended, last, prev, asked, profile, tcase,
                   conn>>

(***************************************************************************)
(* The structured-file backend, started from an empty document.            *)
(***************************************************************************)
Init == BackendIdle /\ profile \in Profiles /\ tcase = NoCase /\ conn = NoConnection

Next ==
    \/ CreatePrompt
    \/ GetPrompt
    \/ BuildPrompt
    \/ UpdatePrompt
    \/ UpdateModel
    \/ AddModel
    \/ RemoveModel
    \/ DeletePrompt
    \/ RestorePrompt
    \/ ClearHistory
    \/ GetHistory
    \/ Backup
    \/ ListPrompts
    \/ Return
    \/ Tick

Spec == Init /\ [][Next]_vars

(***************************************************************************)
(* The Prompt entity on its own: a Prompt is constructed, then its models  *)
(* and its default model are changed by its methods.  tcase holds the      *)
(* object, the last method called on it with its outcome, and the clock    *)
(* that datetime.now() reads.                                              *)
(***************************************************************************)
BlankName == <<" ">>
ENames == {NameP, BlankName}
EModelNames == {ModelM, ModelN}
ETemplates == {T0, T1, TMissing}
EDefaults == {None, ModelM, ModelN}

\* the models a Prompt is constructed with
EModelMaps ==
    {EmptyMap}
      \cup {[k \in {n} |-> PromptModelObj(x.content, x.parameters, 0)] :
                n \in {ModelM, BlankModel}, x \in {T1, TMissing}}
      \cup {[k \in EModelNames |-> PromptModelObj(T1.content, T1.parameters, 0)]}
      \cup {MapSet(MapSet(EmptyMap, ModelM,
                           PromptModelObj(TMissing.content, TMissing.parameters, 0)),
                    n, PromptModelObj(x.content, x.parameters, 0)) :
                n \in {ModelN, BlankModel}, x \in {T1, TExtra}}

ECall(stage, prompt, op, model, arg, err) ==
    tcase' = [stage |-> stage, prompt |-> prompt, op |-> op, model |-> model,
              arg |-> arg, err |-> err, before |-> tcase.prompt,
              clock |-> tcase.clock]

InitEntity ==
    /\ BackendIdle
    /\ profile = "none"
    /\ conn = NoConnection
    /\ tcase = [stage |-> "new", prompt |-> None, op |-> "none", model |-> None,
                arg |-> None, err |-> "none", before |-> None, clock |-> 0]

\* Prompt(nombre=..., models=..., default_model=...)
EConstruct ==
    /\ tcase.stage = "new"
    /\ \E nombre \in ENames, models \in EModelMaps, d \in EDefaults :
       \E order \in Orders(DOMAIN models) :
          LET r == PromptInit(nombre, models, order, d)
              arg == [nombre |-> nombre, models |-> models, order |-> order]
          IN  IF r.err = "none"
              THEN ECall("entity", PromptObj(nombre, models, order, d, tcase.clock),
                         "construct", d, arg, "none")
              ELSE ECall("rejected", None, "construct", d, arg, r.err)
    /\ UNCHANGED backend

\* a method of the Prompt has run: the object is the one the method left
EMethod(op, model, arg, r) ==
    /\ tcase.stage = "entity"
    /\ ECall("entity", r.prompt, op, model, arg, r.err)
    /\ UNCHANGED backend

EAddModel ==
    \E m \in EModelNames, x \in ETemplates :
        EMethod("add_model", m, x,
                add_model(tcase.prompt, m,
                          PromptModelObj(x.content, x.parameters, tcase.clock),
                          tcase.clock))

EUpdateModel ==
    \E m \in EModelNames, x \in ETemplates :
        EMethod("update_model", m, x,
                update_model(tcase.prompt, m,
                             PromptModelObj(x.content, x.parameters, tcase.clock),
                             tcase.clock))

ERemoveModel ==
    \E m \in EModelNames :
        EMethod("remove_model", m, None, remove_model(tcase.prompt, m, tcase.clock))

ESetDefaultModel ==
    \E m \in EModelNames :
        EMethod("set_default_model", m, None,
                set_default_model(tcase.prompt, m, tcase.clock))

\* get_model(model_name), with no name for the default model
EGetModel ==
    \E m \in EModelNames \cup {None} :
        EMethod("get_model", m, None,
                [err |-> get_model(tcase.prompt, m).err, prompt |-> tcase.prompt])

\* time passes between two calls; the outcome of the last call is dropped
ETick ==
    /\ tcase.stage \in {"new", "entity"}
    /\ tcase.clock < MaxTime
    /\ tcase' = [tcase EXCEPT !.clock = @ + 1, !.op = "none", !.model = None,
                              !.arg = None, !.err = "none", !.before = None]
    /\ UNCHANGED backend

NextEntity ==
    \/ EConstruct
    \/ EAddModel
    \/ EUpdateModel
    \/ ERemoveModel
    \/ ESetDefaultModel
    \/ EGetModel
    \/ ETick

SpecEntity == InitEntity /\ [][NextEntity]_vars

(***************************************************************************)
(* Properties of the Prompt entity (SpecEntity).                           *)
(***************************************************************************)
\* C13: a constructed Prompt, after any sequence of add_model, update_model,
\* remove_model and set_default_model calls, succeeding or failing, has a
\* default model that is not set or is a key of its models.
C13_NoDanglingDefault ==
    tcase.stage = "entity" =>
        \/ tcase.prompt.default_model = None
        \/ tcase.prompt.default_model \in DOMAIN tcase.prompt.models

\* the removal of the default model of a Prompt with two models was refused
C13_Witness ==
    /\ tcase.stage = "entity"
    /\ tcase.op = "remove_model"
    /\ tcase.model = tcase.before.default_model
    /\ Cardinality(DOMAIN tcase.before.models) = 2
    /\ tcase.err = "ValidationError"
    /\ tcase.prompt = tcase.before

\* C14: a constructed Prompt, after any sequence of add_model, update_model,
\* remove_model and set_default_model calls, has at least one model, also
\* when its default model is not set.
C14_ModelsNotEmpty ==
    tcase.stage = "entity" => DOMAIN tcase.prompt.models # {}

\* the kinds of core/exceptions.py for a model that is absent and for an
\* operation the default model forbids
NotFound == "ModelNotFoundError"
InvalidOperation == "DefaultModelError"

\* C27: a method of a Prompt given a model name the prompt does not have
\* (update_model, remove_model, set_default_model, get_model) fails with the
\* not-found kind; remove_model of the default model, and get_model without
\* a name when no default is set, fail with the kind of a forbidden
\* operation; add_model of a name the prompt has fails with a third kind.
C27_ModelErrorKinds ==
    (tcase.stage = "entity"
       /\ tcase.op \in {"add_model", "update_model", "remove_model",
                        "set_default_model", "get_model"}) =>
        LET p == tcase.before
            m == tcase.model
            absent == /\ tcase.op # "add_model"
                      /\ m # None
                      /\ m \notin DOMAIN p.models
            forbidden == \/ /\ tcase.op = "remove_model"
                            /\ m \in DOMAIN p.models
                            /\ m = p.default_model
                         \/ /\ tcase.op = "get_model"
                            /\ m = None
                            /\ p.default_model = None
            duplicate == tcase.op = "add_model" /\ m \in DOMAIN p.models
        IN  /\ absent => tcase.err = NotFound
            /\ forbidden => tcase.err = InvalidOperation
            /\ duplicate => tcase.err \notin {"none", NotFound, InvalidOperation}

(***************************************************************************)
(* The callback adapter (handlers/plugins_handler.py) connected to the     *)
(* dictionary backend of examples/example-simple-plugin.py: prompts is     *)
(* storage["prompts"], history is the list storage["history"].             *)
(***************************************************************************)
ExampleTimestamp == "2024-01-01 12:00:00"

\* the truth value Python gives a string or None
Truthy(x) == x # None /\ x # <<>>

\* the functions a PluginConnection holds; the last three are optional
RequiredFuncs == {"create_prompt_func", "get_prompt_func", "update_prompt_func",
                  "delete_prompt_func", "list_prompts_func", "save_prompt_func"}
OptionalFuncs == {"get_history_func", "clear_history_func", "backup_func"}

\* a PluginConnection and the context it is used in: whether the supplied
\* functions are coroutine functions, async_support, whether the client
\* calls from a running event loop, whether get_prompt_func returns None for
\* a missing name, the functions that raise when called (with the exception
\* and its message), the optional functions supplied, and the tasks of the
\* loop not yet run
Connection(coroutines, async_support, loop, quiet, raising, optional) ==
    [name |-> "plugin", coroutines |-> coroutines, async_support |-> async_support,
     loop |-> loop, quiet |-> quiet, raising |-> raising, optional |-> optional,
     tasks |-> <<>>]

\* the example's optional functions called with the adapter's arguments;
\* the TypeError names the function by its qualified name (CPython 3.10 on)
ExampleArity ==
    [f \in OptionalFuncs |->
        CASE f = "get_history_func" ->
               <<"TypeError", <<"create_simple_storage_backend.<locals>.get_history_func() takes 0 positional arguments but 2 were given">>>>
          [] f = "clear_history_func" ->
               <<"TypeError", <<"create_simple_storage_backend.<locals>.clear_history_func() takes 0 positional arguments but 1 was given">>>>
          [] f = "backup_func" ->
               <<"TypeError", <<"create_simple_storage_backend.<locals>.backup_func() missing 1 required positional argument: 'backup_name'">>>>]

\* the connection create_simple_storage_backend makes
ExampleConnection ==
    Connection(FALSE, FALSE, FALSE, FALSE, ExampleArity, OptionalFuncs)

\* the one function f raises
Boom(f) == [g \in {f} |-> <<"RuntimeError", <<"boom">>>>]

PluginProfiles == {"plugin", "fault", "async"}
MaxTasks == 2       \* at most MaxTasks tasks wait on the loop

\* the connections of each family: "plugin" is the example's, "fault" has
\* one function that raises, or no optional function and a get function
\* that returns None, "async" has coroutine functions
Connections ==
    CASE profile = "plugin" -> {ExampleConnection}
      [] profile = "fault" ->
            {Connection(FALSE, FALSE, FALSE, FALSE, Boom(f), OptionalFuncs) :
                f \in RequiredFuncs \cup OptionalFuncs}
            \cup {Connection(FALSE, FALSE, FALSE, TRUE, EmptyMap, {}),
                  Connection(FALSE, FALSE, FALSE, FALSE, EmptyMap, OptionalFuncs)}
      [] profile = "async" ->
            {Connection(TRUE, TRUE, FALSE, FALSE, EmptyMap, OptionalFuncs),
             Connection(TRUE, TRUE, TRUE, FALSE, EmptyMap, OptionalFuncs),
             Connection(TRUE, FALSE, FALSE, FALSE, EmptyMap, OptionalFuncs)}

\* what a call yields: the exception ("none" if it returned) with its
\* message, the exception a supplied function raised during the call (None
\* if none did), the storage it leaves, the value returned with its Python
\* type, and the tasks it left on the event loop
Outcome(err, msg, cause, P, H, ret, type, tasks) ==
    [err |-> err, msg |-> msg, cause |-> cause, prompts |-> P, history |-> H,
     ret |-> ret, type |-> type, tasks |-> tasks]

FuncOk(P, H, ret, type) == Outcome("none", <<>>, None, P, H, ret, type, <<>>)
FuncRaise(P, H, kind, msg) ==
    Outcome(kind, msg, <<kind, msg>>, P, H, None, "NoneType", <<>>)

HistoryRecord(action, prompt_name) ==
    [action |-> action, prompt_name |-> prompt_name, timestamp |-> ExampleTimestamp]

create_prompt_func(P, H, name, model_name, content, parameters, default_model) ==
    IF name \in DOMAIN P
    THEN FuncRaise(P, H, "Exception", <<"Prompt '">> \o name \o <<"' ya existe">>)
    ELSE LET d == [nombre |-> name,
                   default_model |-> IF Truthy(default_model) THEN default_model
                                     ELSE model_name,
                   models |-> MapSet(EmptyMap, model_name,
                                     [content |-> content, parameters |-> parameters]),
                   order |-> <<model_name>>]
         IN  FuncOk(MapSet(P, name, d), Append(H, HistoryRecord("create", name)),
                    d, "dict")

\* the example's function raises for a name it does not hold; the function
\* of a quiet connection returns None instead
get_prompt_func(P, H, name) ==
    IF name \in DOMAIN P THEN FuncOk(P, H, P[name], "dict")
    ELSE IF conn.quiet THEN FuncOk(P, H, None, "NoneType")
    ELSE FuncRaise(P, H, "Exception", <<"Prompt '">> \o name \o <<"' no encontrado">>)

update_prompt_func(P, H, name, new_name, default_model) ==
    IF name \notin DOMAIN P
    THEN FuncRaise(P, H, "Exception", <<"Prompt '">> \o name \o <<"' no encontrado">>)
    ELSE LET P1 == IF Truthy(new_name)
                   THEN MapSet(MapDel(P, name), new_name,
                               [P[name] EXCEPT !.nombre = new_name])
                   ELSE P
             target_name == IF Truthy(new_name) THEN new_name ELSE name
             P2 == IF Truthy(default_model)
                   THEN [P1 EXCEPT ![target_name].default_model = default_model]
                   ELSE P1
             entry == [action |-> "update", prompt_name |-> name,
                       new_name |-> new_name, timestamp |-> ExampleTimestamp]
         IN  FuncOk(P2, Append(H, entry), None, "NoneType")

delete_prompt_func(P, H, name) ==
    IF name \in DOMAIN P
    THEN FuncOk(MapDel(P, name), Append(H, HistoryRecord("delete", name)),
                None, "NoneType")
    ELSE FuncOk(P, H, None, "NoneType")

list_prompts_func(P, H) == FuncOk(P, H, DOMAIN P, "list")

save_prompt_func(P, H, prompt) ==
    LET d == [nombre |-> prompt.nombre,
              default_model |-> prompt.default_model,
              models |-> [n \in DOMAIN prompt.models |->
                            [content |-> prompt.models[n].content,
                             parameters |-> prompt.models[n].parameters]],
              order |-> prompt.order]
    IN  FuncOk(MapSet(P, prompt.nombre, d),
               Append(H, HistoryRecord("save", prompt.nombre)), None, "NoneType")

\* the bodies of the example's optional functions
get_history_func(P, H) == FuncOk(P, H, H, "list")
clear_history_func(P, H) == FuncOk(P, <<>>, None, "NoneType")
backup_func(P, H) == FuncOk(P, H, <<"backup_">>, "str")

\* a supplied function runs on the storage (P, H): it raises at once when
\* the connection says so (in the example get_history_func and
\* clear_history_func take no argument and backup_func takes one, and the
\* adapter passes two, one and none), else its body runs
Supplied(func, args, P, H) ==
    IF func \in DOMAIN conn.raising
    THEN FuncRaise(P, H, conn.raising[func][1], conn.raising[func][2])
    ELSE CASE func = "create_prompt_func" ->
                create_prompt_func(P, H, args[1], args[2], args[3], args[4], args[5])
           [] func = "get_prompt_func" -> get_prompt_func(P, H, args[1])
           [] func = "update_prompt_func" ->
                update_prompt_func(P, H, args[1], args[2], args[3])
           [] func = "delete_prompt_func" -> delete_prompt_func(P, H, args[1])
           [] func = "list_prompts_func" -> list_prompts_func(P, H)
           [] func = "save_prompt_func" -> save_prompt_func(P, H, args[1])
           [] func = "get_history_func" -> get_history_func(P, H)
           [] func = "clear_history_func" -> clear_history_func(P, H)
           [] func = "backup_func" -> backup_func(P, H)

\* the objects _call_function returns for a coroutine function it does not
\* run to its end
TaskObject == <<"Task">>
CoroutineObject == <<"coroutine">>

\* PluginConnectionHandler._call_function: a coroutine function is run to
\* its end by asyncio.run when async_support is set and no loop is running;
\* when a loop is running it is made a task of that loop and the task is
\* returned; without async_support calling it makes a coroutine object that
\* nothing runs.  Any other function is called.
call_function(func, args, P, H) ==
    IF conn.coroutines /\ conn.async_support /\ conn.loop
    THEN Outcome("none", <<>>, None, P, H, TaskObject, "Task",
                 <<[func |-> func, args |-> args]>>)
    ELSE IF conn.coroutines /\ ~conn.async_support
    THEN Outcome("none", <<>>, None, P, H, CoroutineObject, "coroutine", <<>>)
    ELSE Supplied(func, args, P, H)

\* raise kind(msg) where the call a has come to
Throw(a, kind, msg) == [a EXCEPT !.err = kind, !.msg = msg, !.ret = None,
                                 !.type = "NoneType"]

\* return ret, of the given type, where the call a has come to
Give(a, ret, type) == [a EXCEPT !.ret = ret, !.type = type]

\* the call b made after the call a
Then(a, b) == [b EXCEPT !.tasks = a.tasks \o @,
                        !.cause = IF a.cause # None THEN a.cause ELSE @]

\* try: body / except Exception as e: raise PromptSuiteError(f"{prefix}{e}")
Wrapped_silent(prefix, body) ==
    IF body.err = "none" THEN body
    ELSE Throw(body, "PromptSuiteError", <<prefix>>)
Wrapped(prefix, body) ==
    IF body.err = "none" THEN body
    ELSE Throw(body, "PromptSuiteError", <<prefix>> \o body.msg)

\* the place of the key n in a dict of the order o
Pos(o, n) == CHOOSE i \in DOMAIN o : o[i] = n

\* the clock readings _dict_to_prompt makes for a dict of k models, one for
\* each PromptModel and one for the Prompt
DictReads(k) == k + 1

\* PluginConnectionHandler._dict_to_prompt, the first to read the clock in
\* the call: the models are built in the dict's order, then the Prompt
dict_to_prompt(data) ==
    LET bad == {n \in DOMAIN data.models :
                   PromptModelInit(data.models[n].content,
                                   data.models[n].parameters).err # "none"}
        models == [n \in DOMAIN data.models |->
                     PromptModelObj(data.models[n].content,
                                    data.models[n].parameters,
                                    datetime_now(Pos(data.order, n)))]
        prompt == PromptObj(data.nombre, models, data.order, data.default_model,
                            datetime_now(DictReads(Len(data.order))))
    IN  IF bad # {} THEN Failed(Raise("ValidationError"), prompt)
        ELSE IF PromptInit(data.nombre, models, data.order,
                           data.default_model).err # "none"
        THEN Failed(Raise("ValidationError"), prompt)
        ELSE Done(prompt)

\* the result of a supplied function taken as a Prompt: a dictionary is
\* converted, anything else is left to the caller
Converted(a) ==
    LET d == dict_to_prompt(a.ret)
    IN  IF d.err # "none"
        THEN Throw(a, "ValidationError", <<"Error convirtiendo diccionario a Prompt">>)
        ELSE Give(a, d.prompt, "Prompt")

\* PluginConnectionHandler.get_prompt on the storage (P, H)
plugin_get_prompt(P, H, name) ==
    LET g == call_function("get_prompt_func", <<name>>, P, H)
    IN  Wrapped("Error obteniendo prompt: ",
                IF g.err # "none" THEN g
                ELSE IF g.type = "dict" THEN Converted(g)
                ELSE Throw(g, "PromptNotFoundError",
                           <<"Prompt '">> \o name \o <<"' no encontrado">>))

\* Prompt(nombre=name, models={model_name: PromptModel(...)}, default_model=...)
LocalPrompt(a, name, model_name, content, parameters, default_model) ==
    LET models == MapSet(EmptyMap, model_name,
                         PromptModelObj(content, parameters, datetime_now(1)))
        default == IF Truthy(default_model) THEN default_model ELSE model_name
    IN  IF PromptModelInit(content, parameters).err # "none"
        THEN Throw(a, PromptModelInit(content, parameters).err, <<"PromptModel">>)
        ELSE IF PromptInit(name, models, <<model_name>>, default).err # "none"
        THEN Throw(a, PromptInit(name, models, <<model_name>>, default).err, <<"Prompt">>)
        ELSE Give(a, PromptObj(name, models, <<model_name>>, default, datetime_now(2)),
                  "Prompt")

plugin_create_prompt(name, model_name, content, parameters, default_model) ==
    LET c == call_function("create_prompt_func",
                           <<name, model_name, content, parameters, default_model>>,
                           prompts, history)
    IN  Wrapped("Error creando prompt: ",
                IF c.err # "none" THEN c
                ELSE IF c.type = "dict" THEN Converted(c)
                ELSE LocalPrompt(c, name, model_name, content, parameters,
                                 default_model))

plugin_update_prompt(name, new_name, default_model) ==
    LET u == call_function("update_prompt_func", <<name, new_name, default_model>>,
                           prompts, history)
    IN  Wrapped("Error actualizando prompt: ",
                IF u.err # "none" THEN u
                ELSE IF u.type = "dict" THEN Converted(u)
                ELSE Then(u, plugin_get_prompt(u.prompts, u.history,
                                 IF Truthy(new_name) THEN new_name ELSE name)))

plugin_delete_prompt(name) ==
    LET d == call_function("delete_prompt_func", <<name>>, prompts, history)
    IN  Wrapped("Error eliminando prompt: ", Give(d, None, "NoneType"))

plugin_list_prompts ==
    LET l == call_function("list_prompts_func", <<>>, prompts, history)
    IN  Wrapped("Error listando prompts: ",
                IF l.err # "none" \/ l.type = "list" THEN l
                ELSE Give(l, {}, "list"))

\* PluginConnectionHandler.save_prompt on the storage (P, H)
plugin_save_prompt(P, H, prompt) ==
    LET s == call_function("save_prompt_func", <<prompt>>, P, H)
    IN  Wrapped("Error guardando prompt: ", Give(s, None, "NoneType"))

plugin_get_history(name, model_name) ==
    LET h == call_function("get_history_func", <<name, model_name>>, prompts, history)
    IN  IF "get_history_func" \notin conn.optional
        THEN FuncOk(prompts, history, EmptyMap, "dict")
        ELSE Wrapped("Error obteniendo historial: ",
                     IF h.err # "none" \/ h.type = "dict" THEN h
                     ELSE Give(h, EmptyMap, "dict"))

plugin_clear_history(name) ==
    LET c == call_function("clear_history_func", <<name>>, prompts, history)
    IN  IF "clear_history_func" \notin conn.optional
        THEN FuncOk(prompts, history, None, "NoneType")
        ELSE Wrapped("Error limpiando historial: ", Give(c, None, "NoneType"))

\* str(result) if result else "backup_created"
plugin_backup ==
    LET b == call_function("backup_func", <<>>, prompts, history)
    IN  IF "backup_func" \notin conn.optional
        THEN FuncOk(prompts, history, <<"backup_not_supported">>, "str")
        ELSE Wrapped("Error creando backup: ",
                     IF b.err # "none" THEN b
                     ELSE IF Truthy(b.ret) THEN Give(b, b.ret, "str")
                     ELSE Give(b, <<"backup_created">>, "str"))

plugin_build_prompt(name, params, model_name) ==
    LET g == plugin_get_prompt(prompts, history, name)
        b == build_prompt(g.ret, params, model_name)
    IN  IF g.err # "none" THEN g
        ELSE IF b.err # "none" THEN Throw(g, b.err, <<"build_prompt">>)
        ELSE Give(g, b.out, "str")

\* the prompt the entity's method has changed is saved and returned
SavedBack_unconditional(g, m) ==
    LET s == Then(g, plugin_save_prompt(g.prompts, g.history, m.prompt))
    IN  IF m.err # "none" THEN Throw(s, m.err, <<"Prompt">>)
        ELSE IF s.err # "none" THEN s ELSE Give(s, m.prompt, "Prompt")
SavedBack(g, m) ==
    IF m.err # "none" THEN Throw(g, m.err, <<"Prompt">>)
    ELSE LET s == Then(g, plugin_save_prompt(g.prompts, g.history, m.prompt))
         IN  IF s.err # "none" THEN s ELSE Give(s, m.prompt, "Prompt")

\* get_prompt, the mutation of the entity, then save_prompt
plugin_update_model(name, model_name, content, parameters) ==
    LET g == plugin_get_prompt(prompts, history, name)
        pm == PromptModelInit(content, parameters)
    IN  IF g.err # "none" THEN g
        ELSE IF pm.err # "none" THEN Throw(g, pm.err, <<"PromptModel">>)
        ELSE LET k == DictReads(Len(g.ret.order))
             IN  SavedBack(g, update_model(g.ret, model_name,
                                  PromptModelObj(content, parameters, datetime_now(k + 1)),
                                  datetime_now(k + 2)))

plugin_add_model(name, model_name, content, parameters) ==
    LET g == plugin_get_prompt(prompts, history, name)
        pm == PromptModelInit(content, parameters)
    IN  IF g.err # "none" THEN g
        ELSE IF pm.err # "none" THEN Throw(g, pm.err, <<"PromptModel">>)
        ELSE LET k == DictReads(Len(g.ret.order))
             IN  SavedBack(g, add_model(g.ret, model_name,
                                  PromptModelObj(content, parameters, datetime_now(k + 1)),
                                  datetime_now(k + 2)))

plugin_remove_model(name, model_name) ==
    LET g == plugin_get_prompt(prompts, history, name)
    IN  IF g.err # "none" THEN g
        ELSE SavedBack(g, remove_model(g.ret, model_name,
                                       datetime_now(DictReads(Len(g.ret.order)) + 1)))

\* PluginConnectionHandler.restore_prompt: the timestamp is not used
plugin_restore_prompt(name, timestamp) == plugin_get_prompt(prompts, history, name)

\* the tasks of the loop run in the order they were made, each to its end
RECURSIVE RunTasks(_, _, _)
RunTasks(tasks, P, H) ==
    IF tasks = <<>> THEN [prompts |-> P, history |-> H]
    ELSE LET r == Supplied(Head(tasks).func, Head(tasks).args, P, H)
         IN  RunTasks(Tail(tasks), r.prompts, r.history)

\* the entries a history list has gained
Gained(H, G) == IF Len(G) > Len(H) THEN Len(G) - Len(H) ELSE 0

\* a client issues a call to the adapter, which runs to its end
PluginCall(op, name, model, arg, r) ==
    /\ profile \in PluginProfiles
    /\ last = NoCall
    /\ appended + Gained(history, r.history) <= MaxHist
    /\ Len(conn.tasks) + Len(r.tasks) <= MaxTasks
    /\ prompts' = r.prompts
    /\ history' = r.history
    /\ conn' = [conn EXCEPT !.tasks = @ \o r.tasks]
    /\ appended' = appended + Gained(history, r.history)
    /\ last' = [op |-> op, name |-> name, model |-> model, arg |-> arg,
                err |-> r.err, msg |-> r.msg, cause |-> r.cause, ret |-> r.ret,
                tasks |-> r.tasks, before |-> Doc, prev |-> prev]
    /\ prev' = IF r.prompts # prompts \/ r.history # history
               THEN [op |-> op, name |-> name, model |-> model, arg |-> arg,
                     err |-> r.err, entry |-> EntryOf(prompts, name)]
               ELSE prev
    /\ UNCHANGED <<disk, now, asked, profile, tcase>>

PluginCreatePrompt ==
    \E name \in Inputs.names, m \in Inputs.create_models,
       t \in Inputs.create_templates, d \in Inputs.create_defaults :
        PluginCall("create_prompt", name, m, [template |-> t, default_model |-> d],
                   plugin_create_prompt(name, m, t.content, t.parameters, d))

PluginGetPrompt ==
    \E name \in Inputs.names :
        PluginCall("get_prompt", name, None, None,
                   plugin_get_prompt(prompts, history, name))

PluginBuildPrompt ==
    \E name \in Inputs.names, vs \in Inputs.values, m \in Inputs.build_models :
        PluginCall("build_prompt", name, m, vs, plugin_build_prompt(name, vs, m))

PluginUpdatePrompt ==
    \E name \in Inputs.names, nn \in Inputs.new_names, d \in Inputs.defaults :
        PluginCall("update_prompt", name, d, nn, plugin_update_prompt(name, nn, d))

PluginUpdateModel ==
    \E name \in Inputs.names, m \in Inputs.models, t \in Inputs.templates :
        PluginCall("update_model", name, m, t,
                   plugin_update_model(name, m, t.content, t.parameters))

PluginAddModel ==
    \E name \in Inputs.names, m \in Inputs.models, t \in Inputs.templates :
        PluginCall("add_model", name, m, t,
                   plugin_add_model(name, m, t.content, t.parameters))

PluginRemoveModel ==
    \E name \in Inputs.names, m \in Inputs.models :
        PluginCall("remove_model", name, m, None, plugin_remove_model(name, m))

PluginDeletePrompt ==
    \E name \in Inputs.names :
        PluginCall("delete_prompt", name, None, None, plugin_delete_prompt(name))

PluginRestorePrompt ==
    \E name \in Inputs.names, ts \in Inputs.timestamps :
        PluginCall("restore_prompt", name, None, ts, plugin_restore_prompt(name, ts))

PluginListPrompts ==
    /\ profile \in PluginProfiles
    /\ PluginCall("list_prompts", None, None, None, plugin_list_prompts)

PluginGetHistory ==
    \E name \in Inputs.clear :
        PluginCall("get_history", name, None, None, plugin_get_history(name, None))

PluginClearHistory ==
    \E name \in Inputs.clear :
        PluginCall("clear_history", name, None, None, plugin_clear_history(name))

PluginBackup ==
    /\ profile \in PluginProfiles
    /\ PluginCall("backup", None, None, None, plugin_backup)

\* the instants at which a client has built a PromptModel and then the
\* Prompt that holds it, before the call
Built ==
    {b \in (0..MaxTime) \X (0..MaxTime) : b[1] <= b[2] /\ b[2] <= datetime_now(1)}

\* the Prompt objects a client hands to save_prompt: one the storage may
\* hold under that name with another model, and, on the example's
\* connection, one under a second name
SavePrompts ==
    {PromptObj(NameP,
               MapSet(EmptyMap, ModelN, PromptModelObj(T0.content, T0.parameters, b[1])),
               <<ModelN>>, ModelN, b[2]) : b \in Built}
      \cup (IF profile = "plugin"
            THEN {PromptObj(NameQ,
                            MapSet(EmptyMap, ModelM,
                                   PromptModelObj(T0.content, T0.parameters, b[1])),
                            <<ModelM>>, ModelM, b[2]) : b \in Built}
            ELSE {})

\* handler.save_prompt(prompt), called by a client
PluginSavePrompt ==
    \E prompt \in SavePrompts :
        PluginCall("save_prompt", prompt.nombre, None, prompt,
                   plugin_save_prompt(prompts, history, prompt))

\* the client, itself a coroutine of the running loop, awaits: the loop
\* runs the tasks the adapter has made (last records them as it records a
\* call)
Yield ==
    /\ profile \in PluginProfiles
    /\ last = NoCall
    /\ Len(conn.tasks) > 0
    /\ LET r == RunTasks(conn.tasks, prompts, history)
       IN  /\ appended + Gained(history, r.history) <= MaxHist
           /\ prompts' = r.prompts
           /\ history' = r.history
           /\ appended' = appended + Gained(history, r.history)
           /\ prev' = IF r.prompts # prompts \/ r.history # history
                      THEN [op |-> "yield", name |-> None, model |-> None,
                            arg |-> None, err |-> "none", entry |-> None]
                      ELSE prev
    /\ last' = [op |-> "yield", name |-> None, model |-> None, arg |-> None,
                err |-> "none", msg |-> <<>>, cause |-> None, ret |-> None,
                tasks |-> conn.tasks, before |-> Doc, prev |-> prev]
    /\ conn' = [conn EXCEPT !.tasks = <<>>]
    /\ UNCHANGED <<disk, now, asked, profile, tcase>>

\* The clock stands still while the adapter is exercised: the readings of
\* every call are the instant 0.
InitPlugin ==
    /\ BackendIdle
    /\ profile \in PluginProfiles
    /\ conn \in Connections
    /\ tcase = NoCase

NextPlugin ==
    \/ PluginCreatePrompt
    \/ PluginGetPrompt
    \/ PluginBuildPrompt
    \/ PluginUpdatePrompt
    \/ PluginUpdateModel
    \/ PluginAddModel
    \/ PluginRemoveModel
    \/ PluginDeletePrompt
    \/ PluginRestorePrompt
    \/ PluginListPrompts
    \/ PluginGetHistory
    \/ PluginClearHistory
    \/ PluginBackup
    \/ PluginSavePrompt
    \/ Yield
    \/ Return

SpecPlugin == InitPlugin /\ [][NextPlugin]_vars

(***************************************************************************)
(* Properties of the structured-file backend (Spec).                       *)
(***************************************************************************)
IsPrefix(a, b) == Len(a) <= Len(b) /\ SubSeq(b, 1, Len(a)) = a

\* the history of a name in H, empty when the name has none
HistOf(H, n) == IF n \in DOMAIN H THEN H[n] ELSE <<>>

\* two serialized prompts agree on name, default model, model names and each
\* model's content and parameters
SameContent(e, f) ==
    /\ e.nombre = f.nombre
    /\ e.default_model = f.default_model
    /\ DOMAIN e.models = DOMAIN f.models
    /\ \A m \in DOMAIN e.models :
          /\ e.models[m].content = f.models[m].content
          /\ e.models[m].parameters = f.models[m].parameters

\* C1: after a successful delete_prompt(p), for a name p given without
\* surrounding blanks, p is not listed, get_prompt(p) fails with not-found and
\* p's history is kept; a following restore_prompt(p) without timestamp
\* succeeds, the active entry of p has the content it had before the delete,
\* and get_prompt(p) succeeds.
C1_DeleteThenRestore ==
    /\ (last.op = "delete_prompt" /\ last.err = "none" /\ Strip(last.name) = last.name) =>
          /\ last.name \notin yaml_list_prompts
          /\ yaml_get_prompt(last.name).err = "PromptNotFoundError"
          /\ IsPrefix(HistOf(last.before.history, last.name), HistOf(history, last.name))
    /\ (/\ last.op = "restore_prompt"
        /\ last.arg = None
        /\ last.prev.op = "delete_prompt"
        /\ last.prev.err = "none"
        /\ last.prev.name = last.name
        /\ Strip(last.name) = last.name) =>
          /\ last.err = "none"
          /\ last.name \in DOMAIN prompts
          /\ SameContent(prompts[last.name], last.prev.entry)
          /\ yaml_get_prompt(last.name).err = "none"

\* C2: through the callback adapter, a restore_prompt(p) that follows a
\* delete_prompt(p) which removed the valid prompt p succeeds, makes p active
\* again with the content it had before the delete, records the restore in
\* the backend's history, and get_prompt(p) succeeds afterwards.
C2_AdapterRestores ==
    (/\ last.op = "restore_prompt"
     /\ last.prev.op = "delete_prompt"
     /\ last.prev.name = last.name
     /\ dict_to_prompt(last.prev.entry).err = "none") =>
        /\ last.err = "none"
        /\ last.name \in DOMAIN prompts
        /\ SameContent(prompts[last.name], last.prev.entry)
        /\ Len(history) = Len(last.before.history) + 1
        /\ plugin_get_prompt(prompts, history, last.name).err = "none"

\* the entries of h that carry the timestamp
Matching(h, timestamp) == {i \in DOMAIN h : h[i].timestamp = timestamp}

\* C3: a successful restore_prompt(name, timestamp) took the last entry of
\* name's history when no timestamp was given, else the earliest entry with
\* exactly that timestamp; the active entry of name equals that entry's
\* snapshot, and name's history is the former one plus one restore entry
\* holding that snapshot.
C3_RestoreSelects ==
    (last.op = "restore_prompt" /\ last.err = "none") =>
        LET h == HistOf(last.before.history, last.name)
            found == Matching(h, last.arg)
            i == IF last.arg = None THEN Len(h)
                 ELSE CHOOSE x \in found : \A y \in found : x <= y
            after == HistOf(history, last.name)
        IN  /\ h # <<>>
            /\ last.arg # None => found # {}
            /\ last.name \in DOMAIN prompts
            /\ prompts[last.name] = h[i].prompt_data
            /\ Len(after) = Len(h) + 1
            /\ IsPrefix(h, after)
            /\ after[Len(after)].action = "restore"
            /\ after[Len(after)].prompt_data = h[i].prompt_data
            /\ \A n \in (DOMAIN history \cup DOMAIN last.before.history) \ {last.name} :
                  HistOf(history, n) = HistOf(last.before.history, n)

\* a restore by timestamp has succeeded where several entries carry the
\* timestamp and the earliest holds another snapshot than the last
C3_Witness ==
    /\ last.op = "restore_prompt" /\ last.err = "none" /\ last.arg # None
    /\ LET h == HistOf(last.before.history, last.name)
           found == Matching(h, last.arg)
       IN  /\ Cardinality(found) >= 2
           /\ \E x \in found : h[x].prompt_data # h[Len(h)].prompt_data
           /\ \E x \in found, y \in found : h[x].prompt_data # h[y].prompt_data

\* C4: restore_prompt on a name without history, or with a timestamp no
\* entry of the name carries, fails with HistoryError and leaves the active
\* prompts and every history unchanged.
C4_RestoreHistoryError ==
    (/\ last.op = "restore_prompt"
     /\ \/ HistOf(last.before.history, last.name) = <<>>
        \/ (last.arg # None
              /\ Matching(HistOf(last.before.history, last.name), last.arg) = {})) =>
        /\ last.err = "HistoryError"
        /\ prompts = last.before.prompts
        /\ history = last.before.history

\* a restore by a timestamp that no entry of an existing history carries
C4_Witness ==
    /\ last.op = "restore_prompt" /\ last.arg # None
    /\ HistOf(last.before.history, last.name) # <<>>
    /\ Matching(HistOf(last.before.history, last.name), last.arg) = {}
    /\ last.err = "HistoryError"
    /\ last.before.prompts # EmptyMap

\* C5: for every call other than clear_history, succeeding or failing, the
\* history of each name before the call is a prefix of its history after it.
C5_AppendOnly ==
    last.op \notin {"none", "clear_history"} =>
        \A n \in DOMAIN last.before.history :
            IsPrefix(last.before.history[n], HistOf(history, n))

\* a restore has succeeded on a history of two entries or more
C5_Witness ==
    /\ last.op = "restore_prompt" /\ last.err = "none"
    /\ Len(HistOf(last.before.history, last.name)) >= 2
    /\ Len(HistOf(history, last.name)) > Len(HistOf(last.before.history, last.name))

\* the serialized prompt's variants all have placeholders = parameters
VariantsValid(e) ==
    \A m \in DOMAIN e.models :
        Placeholders(e.models[m].content) = Range(e.models[m].parameters)

DocValid(P, H) ==
    /\ \A k \in DOMAIN P : VariantsValid(P[k])
    /\ \A n \in DOMAIN H : \A i \in DOMAIN H[n] : VariantsValid(H[n][i].prompt_data)

\* C6: every variant of every active prompt and of every history snapshot,
\* in memory and in the written document, has exactly its placeholders as
\* parameters.
C6_VariantsValid ==
    /\ DocValid(prompts, history)
    /\ disk.exists => DocValid(disk.prompts, disk.history)

\* a variant whose placeholder is not declared was offered to an active
\* prompt that already has two valid variants and a history, and was refused
C6_Witness ==
    /\ last.op \in {"add_model", "update_model"}
    /\ Placeholders(last.arg.content) # Range(last.arg.parameters)
    /\ last.name \in DOMAIN prompts
    /\ Cardinality(DOMAIN prompts[last.name].models) = 2
    /\ last.err = "MissingParameterError"

\* C9: build fails with MissingParameter when a declared parameter has no
\* value, else with ExtraParameter when a value is not a declared parameter;
\* a failed build leaves the active prompts and the history unchanged.
C9_BuildChecks ==
    last.op = "build_prompt" =>
        /\ last.err # "none" =>
              (prompts = last.before.prompts /\ history = last.before.history)
        /\ LET P == last.before.prompts
               e == EntryOf(P, last.name)
               m == IF last.model = None THEN e.default_model ELSE last.model
           IN  (last.name \in DOMAIN P /\ m \in DOMAIN e.models) =>
                   LET missing == Range(e.models[m].parameters) \ DOMAIN last.arg
                       extra == DOMAIN last.arg \ Range(e.models[m].parameters)
                   IN  /\ missing # {} => last.err = "MissingParameterError"
                       /\ (missing = {} /\ extra # {}) => last.err = "ExtraParameterError"
                       /\ (missing = {} /\ extra = {}) =>
                              last.err \notin {"MissingParameterError", "ExtraParameterError"}

\* a build with both a missing and an extra value has failed
C9_Witness ==
    /\ last.op = "build_prompt"
    /\ last.err = "MissingParameterError"
    /\ LET e == EntryOf(last.before.prompts, last.name)
           m == IF last.model = None THEN e.default_model ELSE last.model
       IN  /\ last.name \in DOMAIN last.before.prompts
           /\ m \in DOMAIN e.models
           /\ Range(e.models[m].parameters) \ DOMAIN last.arg # {}
           /\ DOMAIN last.arg \ Range(e.models[m].parameters) # {}

\* C12: remove_model of the model that is the prompt's default fails and
\* leaves the active prompts as they were, the model still present; once
\* update_prompt has set the default to another model of the prompt, the
\* same remove_model succeeds and the model is no longer among the models
\* of the prompt the name stands for.
C12_DefaultRemoval ==
    (last.op = "remove_model" /\ Strip(last.name) \in DOMAIN last.before.prompts) =>
        LET key == Strip(last.name)
            e == last.before.prompts[key]
        IN  /\ (e.default_model = last.model /\ last.model \in DOMAIN e.models) =>
                  /\ last.err = "ValidationError"
                  /\ prompts = last.before.prompts
                  /\ last.model \in DOMAIN prompts[key].models
            /\ (/\ last.prev.op = "update_prompt"
                /\ last.prev.err = "none"
                /\ last.prev.name = last.name
                /\ last.prev.model \notin {None, last.model}
                /\ last.model \in DOMAIN e.models) =>
                  /\ last.err = "none"
                  /\ key \in DOMAIN prompts
                  /\ last.model \notin DOMAIN prompts[key].models
                  /\ prompts[key].default_model = last.prev.model

\* the stored entry e is a prompt get_prompt can load: a name, at least one
\* model, no blank model name, every variant's placeholders declared, and a
\* default that is one of the models if set
Loadable(e) ==
    /\ Strip(e.nombre) # <<>>
    /\ DOMAIN e.models # {}
    /\ \A m \in DOMAIN e.models : Strip(m) # <<>>
    /\ VariantsValid(e)
    /\ e.default_model = None \/ e.default_model \in DOMAIN e.models

\* x is a variant add_model accepts: content, parameters without blanks or
\* duplicates, and exactly the placeholders of the content
ValidVariant(x) ==
    /\ Strip(x.content) # <<>>
    /\ \A i \in DOMAIN x.parameters : Strip(x.parameters[i]) # <<>>
    /\ ~HasDuplicates(x.parameters)
    /\ Placeholders(x.content) = Range(x.parameters)

\* C15: add_model of a model the active prompt does not have inserts the
\* variant and leaves the default model and every other model unchanged; a
\* build that follows uses the new variant when it names the new model and
\* the former default when it names none; add_model of a model the prompt
\* already has fails and changes nothing.
C15_AddModelFrame ==
    /\ (/\ last.op = "add_model"
        /\ Strip(last.name) \in DOMAIN last.before.prompts) =>
          LET key == Strip(last.name)
              e == last.before.prompts[key]
          IN  /\ (/\ last.model \notin DOMAIN e.models
                  /\ Loadable(e)
                  /\ ValidVariant(last.arg)) =>
                    /\ last.err = "none"
                    /\ DOMAIN prompts = DOMAIN last.before.prompts
                    /\ \A k \in DOMAIN prompts \ {key} :
                          prompts[k] = last.before.prompts[k]
                    /\ LET f == prompts[key]
                       IN  /\ DOMAIN f.models = DOMAIN e.models \cup {last.model}
                           /\ f.models[last.model].content = last.arg.content
                           /\ f.models[last.model].parameters = last.arg.parameters
                           /\ \A m \in DOMAIN e.models : f.models[m] = e.models[m]
                           /\ f.default_model = e.default_model
                           /\ f.nombre = e.nombre
              /\ last.model \in DOMAIN e.models =>
                    /\ last.err = "ValidationError"
                    /\ prompts = last.before.prompts
                    /\ history = last.before.history
    /\ (/\ last.op = "build_prompt"
        /\ last.prev.op = "add_model"
        /\ last.prev.err = "none"
        /\ last.prev.name = last.name
        /\ last.model \in {None, last.prev.model}) =>
          IF last.model = None
          THEN LET key == Strip(last.name)
               IN  /\ key \in DOMAIN last.before.prompts
                   /\ LET e == last.before.prompts[key]
                          m == e.default_model
                      IN  /\ m \in DOMAIN e.models
                          /\ m # last.prev.model
                          /\ DOMAIN last.arg = Range(e.models[m].parameters) =>
                                /\ last.err = "none"
                                /\ last.ret =
                                      Substituted(e.models[m].content, 1, last.arg)
          ELSE LET x == last.prev.arg
               IN  DOMAIN last.arg = Range(x.parameters) =>
                        /\ last.err = "none"
                        /\ last.ret = Substituted(x.content, 1, last.arg)

\* C16: create_prompt of a name that is not active makes it active with
\* exactly the supplied model, leaves the other active prompts alone and
\* appends to the name's history one create entry whose snapshot is the new
\* active entry; with inputs the backend accepts it succeeds; create_prompt
\* of a name that is active fails and changes neither the active prompts
\* nor the history.
C16_CreateContract ==
    last.op = "create_prompt" =>
        LET key == Strip(last.name)
            m == Strip(last.model)
            P == last.before.prompts
            H == last.before.history
        IN  /\ key \in DOMAIN P =>
                  /\ last.err # "none"
                  /\ prompts = P
                  /\ history = H
            /\ (/\ key \notin DOMAIN P
                /\ key # <<>>
                /\ m # <<>>
                /\ ValidVariant(last.arg.template)
                /\ last.arg.default_model \in {None, m}) => last.err = "none"
            /\ (key \notin DOMAIN P /\ last.err = "none") =>
                  /\ DOMAIN prompts = DOMAIN P \cup {key}
                  /\ \A k \in DOMAIN P : prompts[k] = P[k]
                  /\ prompts[key].nombre = key
                  /\ DOMAIN prompts[key].models = {m}
                  /\ prompts[key].models[m].content = last.arg.template.content
                  /\ prompts[key].models[m].parameters =
                        last.arg.template.parameters
                  /\ DOMAIN history = DOMAIN H \cup {key}
                  /\ \A n \in DOMAIN H \ {key} : history[n] = H[n]
                  /\ Len(history[key]) = Len(HistOf(H, key)) + 1
                  /\ IsPrefix(HistOf(H, key), history[key])
                  /\ LET entry == history[key][Len(history[key])]
                     IN  /\ entry.action = "create"
                         /\ entry.model_name = None
                         /\ entry.prompt_data = prompts[key]

\* a name that was deleted has been created again: its history holds the
\* earlier entries and the new create entry, and a create_prompt of an
\* active name has been refused
C16_Witness ==
    /\ last.op = "create_prompt" /\ last.err = "none"
    /\ Strip(last.name) \notin DOMAIN last.before.prompts
    /\ Len(HistOf(last.before.history, Strip(last.name))) >= 2
    /\ last.prev.op = "delete_prompt"

\* create_prompt of an active name has been refused
C16_Refused ==
    /\ last.op = "create_prompt" /\ last.err # "none"
    /\ Strip(last.name) \in DOMAIN last.before.prompts

\* C17: list_prompts returns exactly the active names: get_prompt succeeds
\* on every name it returns, a name on which get_prompt has succeeded is
\* among the names listed, and a name whose delete_prompt was the last
\* change of the document is not listed.
C17_ListIsActive ==
    /\ last.op = "list_prompts" =>
          /\ \A n \in last.ret : yaml_get_prompt(n).err = "none"
          /\ (last.prev.op = "delete_prompt" /\ last.prev.err = "none") =>
                last.prev.name \notin last.ret
    /\ (last.op = "get_prompt" /\ last.err = "none") =>
          Strip(last.name) \in yaml_list_prompts

\* the update family: the operations that change an active prompt in place
UpdateFamily == {"update_prompt", "update_model", "add_model", "remove_model"}

\* the action a history entry written by op carries
ActionOf(op) == IF op = "update_prompt" THEN "update_metadata" ELSE op

LastSnapshot(H, n) == H[n][Len(H[n])].prompt_data

\* the key under which a successful call of the update family leaves the
\* prompt it was given as name
KeyAfter(op, name, new_name) ==
    IF op = "update_prompt" /\ new_name # None THEN Strip(new_name) ELSE name

\* C19: the update family captures the prompt at the same point: of two
\* successful operations of the family on trimmed names, the second right
\* after the first, either both entries hold the active entry as it was
\* before the operation or both hold it as the operation left it.
C19_UniformSnapshot ==
    (/\ last.op \in UpdateFamily /\ last.err = "none"
     /\ last.prev.op \in UpdateFamily /\ last.prev.err = "none"
     /\ Strip(last.name) = last.name
     /\ Strip(last.prev.name) = last.prev.name) =>
        LET snap == LastSnapshot(history, last.before.prompts[last.name].nombre)
            psnap == LastSnapshot(last.before.history, last.prev.entry.nombre)
            pre == snap = last.before.prompts[last.name]
            post == snap = prompts[KeyAfter(last.op, last.name, last.arg)]
            ppre == psnap = last.prev.entry
            ppost == psnap = last.before.prompts[KeyAfter(last.prev.op,
                                                         last.prev.name,
                                                         last.prev.arg)]
        IN  (pre /\ ppre) \/ (post /\ ppost)

\* C20: clear_history(name) removes the history of that name and leaves the
\* history of every other name as it was; clear_history() leaves no history
\* at all; both succeed and leave the active prompts as they were.
C20_ClearHistoryFrame ==
    last.op = "clear_history" =>
        /\ last.err = "none"
        /\ prompts = last.before.prompts
        /\ IF last.name = None THEN DOMAIN history = {}
           ELSE /\ DOMAIN history = DOMAIN last.before.history \ {last.name}
                /\ \A n \in DOMAIN history : history[n] = last.before.history[n]

\* clear_history(name) has dropped the entries of a name while another
\* name kept its own, and a prompt was active
C20_Witness ==
    /\ last.op = "clear_history" /\ last.name # None
    /\ last.name \in DOMAIN last.before.history
    /\ DOMAIN history # {}
    /\ DOMAIN prompts # {}

\* the positions of h whose entry is tagged with the model name
Tagged(h, model_name) == {i \in DOMAIN h : h[i].model_name = model_name}

\* the k-th smallest element of the set of positions I
Nth(I, k) == CHOOSE i \in I : Cardinality({j \in I : j <= i}) = k

\* C21: get_history(name, model) with a model name returns, for a name that
\* has history, the entries of that history tagged with the model name, all
\* of them and in the order they have there, and nothing for a name without
\* history; an entry of a create, update_metadata, delete or restore is
\* never among them.
C21_HistoryFilter ==
    (last.op = "get_history" /\ last.name # None /\ last.model # None) =>
        /\ last.err = "none"
        /\ IF last.name \notin DOMAIN history THEN DOMAIN last.ret = {}
           ELSE LET h == history[last.name]
                    I == Tagged(h, last.model)
                IN  /\ DOMAIN last.ret = {last.name}
                    /\ Len(last.ret[last.name]) = Cardinality(I)
                    /\ \A k \in 1..Cardinality(I) :
                          last.ret[last.name][k] = h[Nth(I, k)]
                    /\ \A k \in DOMAIN last.ret[last.name] :
                          last.ret[last.name][k].action \notin
                              {"create", "update_metadata", "delete", "restore"}

\* a filter has returned two of the three entries of a name, in order
C21_Witness ==
    /\ last.op = "get_history" /\ last.name # None /\ last.model # None
    /\ last.name \in DOMAIN history
    /\ Len(history[last.name]) = 3
    /\ Len(last.ret[last.name]) = 2
    /\ last.ret[last.name][1] # last.ret[last.name][2]

\* the get_history that has just ended asks what the last get_history
\* asked, and no call has changed the document between the two
AskedAgain ==
    /\ last.op = "get_history"
    /\ last.asked.op = "get_history"
    /\ last.asked.name = last.name
    /\ last.asked.model = last.model

\* C22: get_history succeeds and leaves the active prompts and the history as
\* they were before the call, and a get_history that repeats the arguments
\* of the one before it, with no change of the document in between, returns
\* the mapping that one returned.
C22_HistoryPureRead ==
    /\ last.op = "get_history" =>
           /\ last.err = "none"
           /\ prompts = last.before.prompts
           /\ history = last.before.history
    /\ AskedAgain => last.ret = last.asked.ret

\* get_history has been repeated on a document with an active prompt and has
\* returned entries
C22_Witness ==
    /\ AskedAgain
    /\ \E n \in DOMAIN last.ret : Len(last.ret[n]) >= 2
    /\ DOMAIN prompts # {}

\* the operations of the backend that write a prompt and return it
WriteOps ==
    UpdateFamily \cup {"create_prompt", "restore_prompt"}

\* the Prompt object p passes the checks of its constructor
ValidPrompt(p) ==
    PromptInit(p.nombre, p.models, p.order, p.default_model).err = "none"

\* C23: a valid Prompt serialized by to_dict and read back by from_dict is
\* the same object (name, default model, model names, each model's content,
\* parameters and timestamp, the prompt's timestamp); hence the valid Prompt
\* a successful write has returned is the Prompt get_prompt returns for its
\* name right after.
C23_RoundTrip ==
    (last.op \in WriteOps /\ last.err = "none" /\ ValidPrompt(last.ret)) =>
        /\ from_dict(to_dict(last.ret)) = Done(last.ret)
        /\ yaml_get_prompt(KeyAfter(last.op, last.name, last.arg)) = Done(last.ret)

\* C29: an update_model, remove_model, update_prompt, delete_prompt or
\* get_prompt that fails leaves the active prompts and the history of
\* every name as they were before the call.
C29_FailedLeavesStore ==
    (/\ last.op \in {"update_model", "remove_model", "update_prompt",
                     "delete_prompt", "get_prompt"}
     /\ last.err # "none") =>
        /\ prompts = last.before.prompts
        /\ history = last.before.history

\* C30: every active entry is stored under the name it records, and no two
\* keys hold entries that record the same name.
C30_KeyIsName ==
    /\ \A k \in DOMAIN prompts : prompts[k].nombre = k
    /\ \A j, k \in DOMAIN prompts : prompts[j].nombre = prompts[k].nombre => j = k

\* C28: backup leaves the active prompts and the history as they were; when
\* it returns normally it returns the path of a copy of the file; when the
\* document has never been written, so that there is no file to copy, it
\* fails with an error instead of returning.
C28_BackupReported ==
    last.op = "backup" =>
        /\ prompts = last.before.prompts
        /\ history = last.before.history
        /\ last.err = "none" => (last.ret # None /\ disk.exists)
        /\ ~disk.exists => last.err # "none"

(***************************************************************************)
(* Properties of the callback adapter over its connections (SpecPlugin).   *)
(***************************************************************************)
\* the message m ends with the message c
Carries(m, c) == Len(m) >= Len(c) /\ SubSeq(m, Len(m) - Len(c) + 1, Len(m)) = c

\* the calls of the adapter, as against the client's await
AdapterCalled == last.op \notin {"none", "yield"}

\* C24: when the supplied functions are coroutine functions, an adapter
\* call returns only when the function it called has run to its end,
\* whether or not an event loop is running: no task is left to run, a
\* successful create_prompt has stored the prompt, get_prompt finds an
\* active name, list_prompts returns the active names and backup returns
\* what the function returned, not a task or a coroutine object.
C24_AsyncCompleted ==
    (AdapterCalled /\ conn.coroutines) =>
        /\ Len(last.tasks) = 0
        /\ (last.op = "create_prompt" /\ last.err = "none") =>
              last.name \in DOMAIN prompts
        /\ (last.op = "get_prompt" /\ last.name \in DOMAIN last.before.prompts) =>
              last.err = "none"
        /\ (last.op = "list_prompts" /\ last.err = "none") =>
              last.ret = DOMAIN prompts
        /\ (last.op = "backup" /\ last.err = "none") =>
              last.ret \notin {TaskObject, CoroutineObject}

\* C25: when a supplied function has raised during a call of the adapter,
\* the call fails with PromptSuiteError and the message of that error ends
\* with the message of the exception raised.
C25_CallbackErrorsWrapped ==
    (AdapterCalled /\ last.cause # None) =>
        /\ last.err = "PromptSuiteError"
        /\ Carries(last.msg, last.cause[2])

\* add_model has failed because save_prompt_func raised after
\* get_prompt_func had returned the prompt
C25_Witness ==
    /\ AdapterCalled
    /\ last.op = "add_model"
    /\ last.cause = <<"RuntimeError", <<"boom">>>>
    /\ "save_prompt_func" \in DOMAIN conn.raising
    /\ last.name \in DOMAIN prompts
    /\ last.err = "PromptSuiteError"

\* C26: get_prompt of a name that is not active fails with
\* PromptNotFoundError, through the callback adapter too when the functions
\* supplied are plain functions and none of them raised, as when the get
\* function returns None for the name.
C26_LookupNotFound ==
    (/\ AdapterCalled
     /\ last.op = "get_prompt"
     /\ last.name \notin DOMAIN last.before.prompts
     /\ ~conn.coroutines
     /\ last.cause = None) =>
        last.err = "PromptNotFoundError"

(***************************************************************************)
(* Further properties of the structured-file backend (Spec).               *)
(***************************************************************************)
\* two serialized prompts have the same default model and the same models
SameModels(e, f) ==
    /\ e.default_model = f.default_model
    /\ DOMAIN e.models = DOMAIN f.models
    /\ \A m \in DOMAIN e.models :
          /\ e.models[m].content = f.models[m].content
          /\ e.models[m].parameters = f.models[m].parameters

\* update_prompt was called with a new name that differs from the name
Renaming ==
    /\ last.op = "update_prompt"
    /\ last.arg # None
    /\ Strip(last.arg) # Strip(last.name)

\* C31: a successful update_prompt(name, new_name) whose new name was not
\* active moves the prompt: name is no longer active, new_name is active
\* with the models and (when no default model is given) the default model
\* name had, and as many prompts are active as before; an update_prompt to
\* another name that is active fails and leaves that prompt as it was.
C31_RenameMoves ==
    /\ (Renaming /\ last.err = "none"
            /\ Strip(last.arg) \notin DOMAIN last.before.prompts) =>
          /\ Strip(last.name) \in DOMAIN last.before.prompts
          /\ Strip(last.name) \notin DOMAIN prompts
          /\ Strip(last.arg) \in DOMAIN prompts
          /\ prompts[Strip(last.arg)].nombre = Strip(last.arg)
          /\ last.model = None =>
                SameModels(prompts[Strip(last.arg)],
                           last.before.prompts[Strip(last.name)])
          /\ Cardinality(DOMAIN prompts) = Cardinality(DOMAIN last.before.prompts)
    /\ (Renaming /\ Strip(last.arg) \in DOMAIN last.before.prompts) =>
          /\ last.err # "none"
          /\ Strip(last.arg) \in DOMAIN prompts
          /\ prompts[Strip(last.arg)] = last.before.prompts[Strip(last.arg)]

\* every active prompt of the document (P, H) has a history entry under the
\* key it is stored under
ActiveHaveHistory(P, H) == \A k \in DOMAIN P : k \in DOMAIN H /\ H[k] # <<>>

\* C32: no call other than clear_history takes the history away from under
\* an active prompt: when every active prompt had an entry under its name
\* before the call, every active prompt has one after it, a prompt that
\* update_prompt has just renamed included, so that restore_prompt without
\* a timestamp finds an entry for every active name.
C32_ActiveHasHistory ==
    (/\ last.op \notin {"none", "clear_history"}
     /\ ActiveHaveHistory(last.before.prompts, last.before.history)) =>
        ActiveHaveHistory(prompts, history)

\* the call before the last one that changed the document was a successful
\* update_model, remove_model or change of default model (update_prompt
\* with a default model and no new name) on the name of the last call
AfterMutation ==
    /\ last.prev.op \in {"update_model", "remove_model", "update_prompt"}
    /\ last.prev.err = "none"
    /\ last.prev.name = last.name
    /\ last.prev.op = "update_prompt" =>
          (last.prev.arg = None /\ last.prev.model # None)

\* C33: restore_prompt(p) without a timestamp, issued right after a
\* successful update_model, remove_model or change of default model of p,
\* succeeds and leaves the active entry of p exactly as it was before that
\* mutation; issued right after a successful restore_prompt(p) without a
\* timestamp, it leaves the active entry as that restore left it.
C33_RestoreUndoes ==
    (last.op = "restore_prompt" /\ last.arg = None) =>
        /\ AfterMutation =>
              /\ last.err = "none"
              /\ last.name \in DOMAIN prompts
              /\ prompts[last.name] = last.prev.entry
        /\ (/\ last.prev.op = "restore_prompt"
            /\ last.prev.err = "none"
            /\ last.prev.name = last.name
            /\ last.prev.arg = None) =>
              /\ last.err = "none"
              /\ last.name \in DOMAIN prompts
              /\ prompts[last.name] = last.before.prompts[last.name]

(***************************************************************************)
(* Further properties of the entity (SpecTemplate, SpecEntity).            *)
(***************************************************************************)
\* C34: constructing a model variant whose content placeholders differ from
\* its declared parameters fails: no variant results, and when content and
\* parameters are each well formed the error is MissingParameter or
\* ExtraParameter.
C34_CheckedAtConstruction ==
    (/\ tcase.stage # "input"
     /\ Placeholders(tcase.content) # Range(tcase.parameters)) =>
        /\ tcase.stage = "rejected"
        /\ (validate_content(tcase.content).err = "none"
              /\ validate_parameters(tcase.parameters).err = "none") =>
                tcase.res.err \in {"MissingParameterError", "ExtraParameterError"}

\* the variants of models that a Prompt's constructor refuses: those under
\* a blank model name and those whose placeholders differ from their
\* parameters
BlankNamed(models) == {n \in DOMAIN models : Strip(n) = <<>>}
Mismatching(models) ==
    {n \in DOMAIN models :
        Placeholders(models[n].content) # Range(models[n].parameters)}

\* the first variant, in the dict's order, that the constructor refuses
FirstRefused(models, order) ==
    order[CHOOSE i \in DOMAIN order :
             /\ order[i] \in BlankNamed(models) \cup Mismatching(models)
             /\ \A j \in 1..(i - 1) :
                   order[j] \notin BlankNamed(models) \cup Mismatching(models)]

\* C35: Prompt(nombre, models, default_model) checks, in this order, that
\* the name is not blank, that there is a model, that every variant is
\* valid, and that the default model, if given, is one of the models: it
\* fails with the error of the first check that fails (ValidationError for
\* the name, the empty models and the default model, MissingParameter or
\* ExtraParameter for a variant whose template does not match, the first
\* refused variant in the dict's order deciding), and a failed construction
\* yields no Prompt.
C35_ConstructionOrder ==
    tcase.op = "construct" =>
        LET nombre == tcase.arg.nombre
            models == tcase.arg.models
            refused == tcase.stage = "rejected"
        IN  IF Strip(nombre) = <<>> \/ DOMAIN models = {}
            THEN refused /\ tcase.err = "ValidationError"
            ELSE IF BlankNamed(models) \cup Mismatching(models) # {}
            THEN /\ refused
                 /\ IF FirstRefused(models, tcase.arg.order) \in BlankNamed(models)
                    THEN tcase.err = "ValidationError"
                    ELSE tcase.err \in {"MissingParameterError", "ExtraParameterError"}
            ELSE IF tcase.model # None /\ tcase.model \notin DOMAIN models
            THEN refused /\ tcase.err = "ValidationError"
            ELSE tcase.stage = "entity" /\ tcase.err = "none"

\* a construction failed on a variant whose template lacks a parameter
\* while the default model given was not one of the models
C35_Witness ==
    /\ tcase.op = "construct"
    /\ tcase.stage = "rejected"
    /\ tcase.err = "MissingParameterError"
    /\ tcase.model # None
    /\ tcase.model \notin DOMAIN tcase.arg.models

(* Further properties of the structured-file backend, continued. *)
\* the last call was a successful structural mutation: a model added,
\* updated or removed, a rename, or a change of the default model
StructuralMutation ==
    /\ last.op \in {"add_model", "update_model", "remove_model", "update_prompt"}
    /\ last.err = "none"
    /\ last.op = "update_prompt" => (Renaming \/ last.model # None)

\* the key under which the prompt is stored after the last call
StoredKey == IF Renaming THEN Strip(last.arg) ELSE Strip(last.name)

\* C36: after each successful add_model, update_model, remove_model, rename
\* and default-model change, the stored prompt's last_updated is the time
\* of that operation, a rename through update_prompt with only a new name
\* included.
C36_LastUpdatedRefreshed ==
    StructuralMutation =>
        /\ StoredKey \in DOMAIN prompts
        /\ \E i \in 1..YamlReads : prompts[StoredKey].last_updated = IsoFormat(last.clock[i])

\* the last call named a prompt by a padded name that get_prompt resolves
PaddedLookup ==
    /\ last.op \in {"update_model", "add_model", "remove_model", "update_prompt",
                    "delete_prompt"}
    /\ last.name # Strip(last.name)
    /\ Strip(last.name) \in DOMAIN last.before.prompts

\* C37: update_model, add_model, remove_model, update_prompt and
\* delete_prompt called with a padded name act on the one entry stored
\* under the trimmed name, as create_prompt and get_prompt do: the call
\* leaves no active entry under a key that is not trimmed, and once the
\* lookup has succeeded it does not fail for want of the entry (KeyError).
C37_PaddedNamesTrimmed ==
    /\ (last.op # "none" /\ \A k \in DOMAIN last.before.prompts : k = Strip(k)) =>
           \A k \in DOMAIN prompts : k = Strip(k)
    /\ PaddedLookup => last.err # "KeyError"

\* C38: every mutating operation rewrites the whole document, so that once
\* the file has been written, whenever a call has returned or raised, the
\* persisted document (prompts and history) is what writing the document
\* the backend holds in memory gives.
C38_PersistedEqualsMemory ==
    (last.op # "none" /\ disk.exists) => disk = save_yaml_file(Doc)

\* the stored prompt e has a model and its default model is one of them
HasDefault(e) ==
    /\ DOMAIN e.models # {}
    /\ e.default_model # None
    /\ e.default_model \in DOMAIN e.models

\* C39: starting from the empty document, after any sequence of calls
\* every active prompt has at least one model and a default model that is
\* set and is one of its models, and build_prompt without a model name on
\* an active prompt never fails for lack of a default model.
C39_DefaultAlwaysSet ==
    /\ \A k \in DOMAIN prompts : HasDefault(prompts[k])
    /\ (last.op = "build_prompt" /\ last.model = None
            /\ Strip(last.name) \in DOMAIN last.before.prompts) =>
           get_model(last.before.prompts[Strip(last.name)], None).err = "none"

\* a prompt was built with its default model right after one of its models
\* had been removed
C39_Witness ==
    /\ last.op = "build_prompt"
    /\ last.model = None
    /\ last.err = "none"
    /\ last.prev.op = "remove_model"
    /\ last.prev.err = "none"
    /\ HasDefault(prompts[Strip(last.name)])

(* Further properties of the callback adapter (SpecPlugin). *)
\* how many times the last call invoked the connection's save function:
\* an invocation of the example's function files a "save" record, one
\* made on a running loop is left as a task, and one that raises is the
\* cause of the call's error
SaveCalls ==
    Cardinality({i \in (Len(last.before.history) + 1)..Len(history) :
                    history[i].action = "save"})
    + Cardinality({i \in DOMAIN last.tasks : last.tasks[i].func = "save_prompt_func"})
    + (IF "save_prompt_func" \in DOMAIN conn.raising
          /\ last.cause = conn.raising["save_prompt_func"]
       THEN 1 ELSE 0)

\* what the last call's entity method does to the prompt that get_prompt
\* returned
EntityMutation(prompt) ==
    CASE last.op = "remove_model" ->
           remove_model(prompt, last.model, datetime_now(DictReads(Len(prompt.order)) + 1))
      [] last.op = "update_model" ->
           IF PromptModelInit(last.arg.content, last.arg.parameters).err # "none"
           THEN Failed(PromptModelInit(last.arg.content, last.arg.parameters), prompt)
           ELSE update_model(prompt, last.model,
                             PromptModelObj(last.arg.content, last.arg.parameters,
                                            datetime_now(DictReads(Len(prompt.order)) + 1)),
                             datetime_now(DictReads(Len(prompt.order)) + 2))
      [] last.op = "add_model" ->
           IF PromptModelInit(last.arg.content, last.arg.parameters).err # "none"
           THEN Failed(PromptModelInit(last.arg.content, last.arg.parameters), prompt)
           ELSE add_model(prompt, last.model,
                          PromptModelObj(last.arg.content, last.arg.parameters,
                                         datetime_now(DictReads(Len(prompt.order)) + 1)),
                          datetime_now(DictReads(Len(prompt.order)) + 2))

\* C40: the adapter's update_model, add_model and remove_model run get,
\* then the entity's method, then save: when get fails or the entity's
\* method fails (absent or duplicate model, removal of the default model,
\* invalid template) the save function is not invoked and the storage is
\* left as it was; when the entity's method succeeds the save function is
\* invoked exactly once, with the mutated prompt, which the call returns.
C40_SaveOnce ==
    last.op \in {"update_model", "add_model", "remove_model"} =>
        LET g == plugin_get_prompt(last.before.prompts, last.before.history, last.name)
        IN  IF g.err # "none"
            THEN /\ SaveCalls = 0
                 /\ last.err # "none"
                 /\ Doc = last.before
            ELSE LET m == EntityMutation(g.ret)
                 IN  IF m.err # "none"
                     THEN /\ SaveCalls = 0
                          /\ last.err = m.err
                          /\ Doc = last.before
                     ELSE /\ SaveCalls = 1
                          /\ last.err = "none" =>
                                /\ last.ret = m.prompt
                                /\ prompts = save_prompt_func(last.before.prompts,
                                                  last.before.history, m.prompt).prompts

\* update_model succeeded and the save function was invoked once
C40_Witness ==
    /\ last.op = "update_model"
    /\ last.err = "none"
    /\ SaveCalls = 1
    /\ prompts # last.before.prompts
====
